---- MODULE Spec2Model ----
(***************************************************************************)
(* A model of the wasmtime component bindings generator                    *)
(* (crates/wit-bindgen): the ownership/mode resolver of rust.rs, the type  *)
(* definition emitter and the import/export handlers of lib.rs, and the    *)
(* behaviour of the dispatch glue the generator emits.                     *)
(*                                                                         *)
(* Generated source text is modelled as a sequence of tokens, one per      *)
(* emitted item that a property talks about (a definition, an assertion,   *)
(* a `use`, a module, a registration).  A token is a record whose field    *)
(* `t` is its tag.                                                         *)
(***************************************************************************)
EXTENDS Integers, Sequences, FiniteSets, TLC

(***************************************************************************)
(* Option / Result plumbing                                                *)
(***************************************************************************)
None == "None"

\* The outcome of a generator function that may panic: a value, or a panic
\* carrying its message.  `v` is always a sequence.
Done(v) == [ok |-> TRUE, v |-> v]
Panic(msg) == [ok |-> FALSE, v |-> <<msg>>]

(***************************************************************************)
(* lib.rs: Ownership                                                       *)
(***************************************************************************)
Owning == "Owning"
BorrowingDup == "Borrowing{duplicate_if_necessary:true}"
BorrowingNoDup == "Borrowing{duplicate_if_necessary:false}"
Ownership == {Owning, BorrowingDup, BorrowingNoDup}

(***************************************************************************)
(* rust.rs: TypeMode                                                       *)
(***************************************************************************)
Owned == [tag |-> "Owned", lt |-> None]
AllBorrowed(lt) == [tag |-> "AllBorrowed", lt |-> lt]
TypeMode == {Owned, AllBorrowed("'a"), AllBorrowed("'_")}

(***************************************************************************)
(* types.rs: TypeInfo, the four usage flags of a type                      *)
(***************************************************************************)
TypeInfo == [owned : BOOLEAN, borrowed : BOOLEAN, has_list : BOOLEAN, error : BOOLEAN]

(***************************************************************************)
(* The resolved graph (wit_parser::Resolve), a fixed bounded universe.     *)
(* A Type is a primitive ("u32", "string") or a TypeId of TypeDefs.        *)
(* A TypeDef has a name (or None), a kind, an owner (an interface or None) *)
(* and the types it is made of.                                            *)
(***************************************************************************)
TypeDef(name, kind, owner, of) == [name |-> name, kind |-> kind, owner |-> owner, of |-> of]

TypeDefs ==
  [ foo        |-> TypeDef("foo", "record", "ia", <<"string", "u32">>),
    foo_param  |-> TypeDef("foo-param", "enum", "ia", <<>>),
    my_error   |-> TypeDef("my-error", "record", "ia", <<"string">>),
    pair       |-> TypeDef("pair", "tuple", "ic", <<"u32", "string">>),
    perms      |-> TypeDef("perms", "flags", "ic", <<>>),
    shape      |-> TypeDef("shape", "variant", "ic", <<"u32", "string">>),
    num        |-> TypeDef("num", "union", "ic", <<"u32", "string">>),
    maybe      |-> TypeDef("maybe", "option", "ic", <<"string">>),
    outcome    |-> TypeDef("outcome", "result", "ic", <<"u32", "my_error">>),
    names      |-> TypeDef("names", "list", "ic", <<"string">>),
    grid       |-> TypeDef("grid", "list", "ic", <<"list_str">>),
    count      |-> TypeDef("count", "type", "ic", <<"u32">>),
    peer       |-> TypeDef("peer", "type", "ic", <<"own_r2">>),
    conn       |-> TypeDef("conn", "handle", "ic", <<"r1">>),
    later      |-> TypeDef("later", "future", "ic", <<"u32">>),
    feed       |-> TypeDef("feed", "stream", "ic", <<"u32">>),
    r1         |-> TypeDef("r1", "resource", "ia", <<>>),
    r2         |-> TypeDef("r2", "resource", "ib", <<>>),
    r3         |-> TypeDef("r3", "resource", "iz", <<>>),
    r4         |-> TypeDef("r4", "resource", "iz", <<>>),
    own_r1     |-> TypeDef(None, "handle", "none", <<"r1">>),
    borrow_r1  |-> TypeDef(None, "handle", "none", <<"r1">>),
    own_r2     |-> TypeDef(None, "handle", "none", <<"r2">>),
    own_r3     |-> TypeDef(None, "handle", "none", <<"r3">>),
    borrow_r3  |-> TypeDef(None, "handle", "none", <<"r3">>),
    borrow_r4  |-> TypeDef(None, "handle", "none", <<"r4">>),
    res_err    |-> TypeDef(None, "result", "none", <<"u32", "my_error">>),
    res_alias  |-> TypeDef(None, "result", "none", <<"u32", "err_alias">>),
    err_alias  |-> TypeDef("err-alias", "type", "ic", <<"my_error">>),
    list_r1    |-> TypeDef(None, "list", "none", <<"own_r1">>),
    list_str   |-> TypeDef(None, "list", "none", <<"string">>),
    world_error |-> TypeDef("my-error", "type", "world", <<"my_error">>),
    u320       |-> TypeDef("u320", "type", "world", <<"u32">>),
    res_world  |-> TypeDef(None, "result", "none", <<"u32", "world_error">>) ]

TypeIds == DOMAIN TypeDefs

\* wit_parser::Type: the primitive types; every other Type is Type::Id.
PrimitiveTypes ==
  {"bool", "u8", "u16", "u32", "u64", "s8", "s16", "s32", "s64",
   "float32", "float64", "char", "string"}

IsId(t) == t \notin PrimitiveTypes /\ t # None

\* heck::to_upper_camel_case on the names of the universe; a name that is
\* already camel-cased is left as it is.
to_upper_camel_case(n) ==
  CASE n = "foo" -> "Foo"
    [] n = "foo-param" -> "FooParam"
    [] n = "my-error" -> "MyError"
    [] n = "pair" -> "Pair"
    [] n = "perms" -> "Perms"
    [] n = "shape" -> "Shape"
    [] n = "num" -> "Num"
    [] n = "maybe" -> "Maybe"
    [] n = "outcome" -> "Outcome"
    [] n = "names" -> "Names"
    [] n = "grid" -> "Grid"
    [] n = "count" -> "Count"
    [] n = "peer" -> "Peer"
    [] n = "conn" -> "Conn"
    [] n = "later" -> "Later"
    [] n = "feed" -> "Feed"
    [] n = "u320" -> "U320"
    [] n = "r1" -> "R1"
    [] n = "r2" -> "R2"
    [] n = "r3" -> "R3"
    [] n = "r4" -> "R4"
    [] n = "err-alias" -> "ErrAlias"
    [] n = "ia" -> "Ia"
    [] n = "ib" -> "Ib"
    [] n = "ic" -> "Ic"
    [] n = "ix" -> "Ix"
    [] n = "iz" -> "Iz"
    [] n = "the-world" -> "TheWorld"
    [] OTHER -> n

\* rust.rs: to_rust_upper_camel_case ("host" is renamed, all else camel-cased).
to_rust_upper_camel_case(n) == IF n = "host" THEN "Host_" ELSE to_upper_camel_case(n)

\* wit_parser::SizeAlign, the layout pass: size and alignment per type id.
SizeOf(id) ==
  CASE TypeDefs[id].kind \in {"record", "tuple", "variant", "union", "option", "result"} -> 12
    [] TypeDefs[id].kind \in {"list"} -> 8
    [] TypeDefs[id].kind \in {"enum"} -> 1
    [] OTHER -> 4

AlignOf(id) == IF TypeDefs[id].kind = "enum" THEN 1 ELSE 4

(***************************************************************************)
(* rust.rs: the ownership/mode resolver                                    *)
(***************************************************************************)
\* RustGenerator::uses_two_names
\* uses_two_names without its test of the ownership policy.
uses_two_names_any_policy(ownership, info) ==
  /\ info.has_list
  /\ info.borrowed
  /\ info.owned

\* uses_two_names without its test of owned.
uses_two_names_of_borrowed(ownership, info) ==
  /\ info.has_list
  /\ info.borrowed
  /\ ownership = BorrowingDup

uses_two_names(ownership, info) ==
  /\ info.has_list
  /\ info.borrowed
  /\ info.owned
  /\ ownership = BorrowingDup

\* lifetime_for without its test of has_list.
lifetime_for_without_list_test(ownership, info, mode) ==
  IF ownership = Owning THEN None
  ELSE IF mode.tag # "AllBorrowed" THEN None
  ELSE IF uses_two_names(ownership, info) \/ (info.borrowed /\ ~info.owned)
       THEN mode.lt
       ELSE None

\* RustGenerator::lifetime_for: None, or the lifetime of the mode.
lifetime_for(ownership, info, mode) ==
  IF ownership = Owning THEN None
  ELSE IF mode.tag # "AllBorrowed" THEN None
  ELSE IF ~info.has_list THEN None
  ELSE IF uses_two_names(ownership, info) \/ (info.borrowed /\ ~info.owned)
       THEN mode.lt
       ELSE None

\* RustGenerator::param_name
param_name(ownership, info, id) ==
  to_upper_camel_case(TypeDefs[id].name)
    \o (IF uses_two_names(ownership, info) THEN "Param" ELSE "")

\* RustGenerator::result_name
result_name(ownership, info, id) ==
  to_upper_camel_case(TypeDefs[id].name)
    \o (IF uses_two_names(ownership, info) THEN "Result" ELSE "")

\* modes_of with a first mode that is borrowed whenever the type is borrowed
\* under a borrowing policy.
modes_of_borrowed_first(ownership, info, id) ==
  IF ~info.owned /\ ~info.borrowed THEN Done(<<>>)
  ELSE LET first_mode == IF ~info.borrowed \/ ownership = Owning
                         THEN Owned
                         ELSE AllBorrowed("'a")
           first == <<[name |-> result_name(ownership, info, id), mode |-> first_mode]>>
       IN Done(IF uses_two_names(ownership, info)
               THEN Append(first, [name |-> param_name(ownership, info, id),
                                   mode |-> AllBorrowed("'a")])
               ELSE first)

\* RustGenerator::modes_of: the (name, mode) pairs of a type, or the panic of
\* its assertion.
modes_of(ownership, info, id) ==
  IF ~info.owned /\ ~info.borrowed THEN Done(<<>>)
  ELSE IF ~(info.owned \/ ~info.borrowed \/ ownership = Owning)
          /\ uses_two_names(ownership, info)
  THEN Panic("assertion failed: !self.uses_two_names(&info)")
  ELSE LET first_mode == IF info.owned \/ ~info.borrowed \/ ownership = Owning
                         THEN Owned
                         ELSE AllBorrowed("'a")
           first == <<[name |-> result_name(ownership, info, id), mode |-> first_mode]>>
       IN Done(IF uses_two_names(ownership, info)
               THEN Append(first, [name |-> param_name(ownership, info, id),
                                   mode |-> AllBorrowed("'a")])
               ELSE first)

(***************************************************************************)
(* Functions, interfaces and world items of the resolved graph.            *)
(* A function has a name, a kind, the resource of its kind (None for a     *)
(* freestanding function), its parameter types and its result types.       *)
(***************************************************************************)
Function(name, kind, resource, params, results) ==
  [name |-> name, kind |-> kind, resource |-> resource, params |-> params, results |-> results]

Functions ==
  [ get     |-> Function("get", "Freestanding", None, <<"foo">>, <<"res_err">>),
    link    |-> Function("link", "Freestanding", None, <<"own_r1", "own_r2">>, <<>>),
    ctor_r1 |-> Function("[constructor]r1", "Constructor", "r1", <<"u32">>, <<"own_r1">>),
    poke    |-> Function("[method]r1.poke", "Method", "r1", <<"borrow_r1", "u32">>, <<"u32">>),
    fetch   |-> Function("fetch", "Freestanding", None, <<"u32">>, <<"own_r2">>),
    wf      |-> Function("wf", "Freestanding", None, <<"own_r1">>, <<"u32">>),
    wg      |-> Function("wg", "Freestanding", None, <<"u32">>, <<"u32">>),
    stash   |-> Function("stash", "Freestanding", None, <<"own_r2">>, <<>>),
    make    |-> Function("[static]r1.make", "Static", "r1", <<"u32">>, <<"own_r1">>),
    interface0 |-> Function("interface0", "Freestanding", None, <<"u32">>, <<"u32">>),
    wfail   |-> Function("wfail", "Freestanding", None, <<"u32">>, <<"res_world">>),
    ctor_r3 |-> Function("[constructor]r3", "Constructor", "r3", <<"u32">>, <<"own_r3">>),
    peek    |-> Function("[method]r3.peek", "Method", "r3", <<"borrow_r3", "u32", "string">>,
                         <<"u32">>),
    spawn   |-> Function("[static]r3.spawn", "Static", "r3", <<"u32", "string">>, <<"own_r3">>),
    ping    |-> Function("[method]r4.ping", "Method", "r4", <<"borrow_r4">>, <<>>) ]

FunctionIds == DOMAIN Functions

\* wit_parser::PackageName; the version is None or a version number.
PackageName(namespace, name, version) ==
  [namespace |-> namespace, name |-> name, version |-> version]

\* The packages of the universe, in the order of PackageName (namespace,
\* name, version; no version first).
PackageOrder ==
  <<PackageName("ns", "pk", None), PackageName("ns", "pk", "0.2.0"),
    PackageName("ns", "qk", None), PackageName("os", "pk", None)>>

\* `key` is the kind of WorldKey the world refers to the interface by:
\* "Interface" (a named interface of a package) or "Name" (an inline one).
Interfaces ==
  [ ia |-> [name |-> "ia", package |-> PackageName("ns", "pk", None), key |-> "Interface",
            types |-> <<"foo", "foo_param", "my_error", "r1">>,
            functions |-> <<"get", "link", "ctor_r1", "poke">>],
    ib |-> [name |-> "ib", package |-> PackageName("ns", "pk", None), key |-> "Name",
            types |-> <<"r2">>,
            functions |-> <<"fetch">>],
    ic |-> [name |-> "ic", package |-> PackageName("ns", "pk", None), key |-> "Name",
            types |-> <<"pair", "perms", "shape", "num", "maybe", "outcome", "names",
                        "count", "peer", "conn", "later", "feed", "err_alias">>,
            functions |-> <<>>],
    ix |-> [name |-> "ix", package |-> PackageName("ns", "pk", None), key |-> "Name",
            types |-> <<>>,
            functions |-> <<"stash">>],
    iz |-> [name |-> "iz", package |-> PackageName("ns", "pk", None), key |-> "Name",
            types |-> <<"r3", "r4">>,
            functions |-> <<"ctor_r3", "peek", "spawn", "ping">>],
    ja |-> [name |-> "ja", package |-> PackageName("ns", "pk", None), key |-> "Interface",
            types |-> <<>>, functions |-> <<>>],
    jv |-> [name |-> "jv", package |-> PackageName("ns", "pk", "0.2.0"), key |-> "Interface",
            types |-> <<>>, functions |-> <<>>],
    jq |-> [name |-> "jq", package |-> PackageName("ns", "qk", None), key |-> "Interface",
            types |-> <<>>, functions |-> <<>>],
    jo |-> [name |-> "jo", package |-> PackageName("os", "pk", None), key |-> "Interface",
            types |-> <<>>, functions |-> <<>>] ]

InterfaceIds == DOMAIN Interfaces

\* heck::to_snake_case on the names of the universe (all are snake case but
\* the bracketed names of resource functions).
to_snake_case(n) ==
  CASE n = "[constructor]r1" -> "constructor_r1"
    [] n = "[method]r1.poke" -> "method_r1_poke"
    [] n = "[static]r1.make" -> "static_r1_make"
    [] n = "[constructor]r3" -> "constructor_r3"
    [] n = "[method]r3.peek" -> "method_r3_peek"
    [] n = "[static]r3.spawn" -> "static_r3_spawn"
    [] n = "[method]r4.ping" -> "method_r4_ping"
    [] n = "my-error" -> "my_error"
    [] n = "foo-param" -> "foo_param"
    [] n = "err-alias" -> "err_alias"
    [] n = "the-world" -> "the_world"
    [] OTHER -> n

\* Resolve::name_world_key
name_world_key(id) ==
  IF Interfaces[id].key = "Name" THEN Interfaces[id].name
  ELSE Interfaces[id].package.namespace \o ":" \o Interfaces[id].package.name
         \o "/" \o Interfaces[id].name

(***************************************************************************)
(* Sequence helpers                                                        *)
(***************************************************************************)
RECURSIVE Flatten(_)
Flatten(ss) == IF ss = <<>> THEN <<>> ELSE Head(ss) \o Flatten(Tail(ss))

\* The sequence of f[x] for x in s.
Map(s, F(_)) == [i \in 1..Len(s) |-> F(s[i])]

Range(s) == {s[i] : i \in 1..Len(s)}

RECURSIVE Join(_, _)
Join(ss, sep) ==
  IF ss = <<>> THEN ""
  ELSE IF Len(ss) = 1 THEN ss[1]
  ELSE ss[1] \o sep \o Join(Tail(ss), sep)

\* All orders in which a set can be iterated.
RECURSIVE Orders(_)
Orders(S) ==
  IF S = {} THEN {<<>>}
  ELSE UNION {{<<x>> \o o : o \in Orders(S \ {x})} : x \in S}

\* The tokens of a text with a given tag.
Tokens(src, tag) == SelectSeq(src, LAMBDA tok : tok.t = tag)

(***************************************************************************)
(* lib.rs: the resources a type refers to                                  *)
(***************************************************************************)
\* InterfaceGenerator::get_resource_from_ty / get_resource_from_tyid: the
\* (name, owner) of every resource reachable through handles, tuples,
\* options, results, lists, futures, streams and aliases.
RECURSIVE get_resource_from_ty(_)
\* get_resource_from_tyid on the definition of a type id.
get_resource_from_tyid(def) ==
  CASE def.kind = "resource" -> <<[name |-> def.name, owner |-> def.owner]>>
    [] def.kind \in {"handle", "option", "list", "type", "future"} ->
         get_resource_from_ty(def.of[1])
    [] def.kind \in {"tuple", "result", "stream"} ->
         Flatten([i \in 1..Len(def.of) |-> get_resource_from_ty(def.of[i])])
    [] OTHER -> <<>>

get_resource_from_ty(ty) ==
  IF ~IsId(ty) THEN <<>> ELSE get_resource_from_tyid(TypeDefs[ty])

\* rust.rs: to_rust_ident (Rust keywords get a trailing underscore).
RustKeywords ==
  {"as", "break", "const", "continue", "crate", "else", "enum", "extern", "false",
   "fn", "for", "if", "impl", "in", "let", "loop", "match", "mod", "move", "mut",
   "pub", "ref", "return", "self", "static", "struct", "super", "trait", "true",
   "type", "unsafe", "use", "where", "while", "async", "await", "dyn", "abstract",
   "become", "box", "do", "final", "macro", "override", "priv", "typeof", "unsized",
   "virtual", "yield", "try"}

to_rust_ident(n) == IF n \in RustKeywords THEN n \o "_" ELSE to_snake_case(n)

(***************************************************************************)
(* rust.rs: the type printer.  `cx` is what the printer reads of the       *)
(* generator: opts, the analysed types, the interface names and the        *)
(* current interface (cur, or None) with its direction.                    *)
(***************************************************************************)
\* InterfaceGenerator::path_to_interface: None inside the interface itself.
path_to_interface(cx, interface) ==
  IF cx.cur # None /\ cx.cur = interface THEN None
  ELSE LET path_to_root ==
             IF cx.cur = None THEN ""
             ELSE (IF Interfaces[cx.cur].key = "Name" THEN "super::" ELSE "super::super::super::")
                  \o (IF cx.is_export THEN "super::" ELSE "")
       IN path_to_root \o cx.interface_names[interface].path

\* RustGenerator::print_generics_
print_generics_(lifetime) == IF lifetime = None THEN "" ELSE "<" \o lifetime \o ",>"

\* The `&` or `&'a ` that opens a borrow.
Amp(lt) == IF lt # "'_" THEN "&" \o lt \o " " ELSE "&"

\* needs_generics of print_tyid_
RECURSIVE needs_generics(_)
\* needs_generics on the definition of a type id.
needs_generics_of(def) ==
  IF def.kind # "type" THEN TRUE
  ELSE IF IsId(def.of[1]) THEN needs_generics(def.of[1])
  ELSE def.of[1] = "string"

needs_generics(id) == needs_generics_of(TypeDefs[id])

RECURSIVE print_ty_(_, _, _), print_tyid_(_, _, _), print_tyid_of(_, _, _, _),
          print_list_(_, _, _)

\* RustGenerator::print_ty_
print_ty_(cx, ty, mode) ==
  IF IsId(ty) THEN print_tyid_(cx, ty, mode)
  ELSE IF ty = "string"
       THEN (IF mode.tag = "AllBorrowed" THEN Amp(mode.lt) \o "str" ELSE "String")
  ELSE ty

\* RustGenerator::print_optional_ty_
print_optional_ty_(cx, ty, mode) == IF ty = None THEN "()" ELSE print_ty_(cx, ty, mode)

\* RustGenerator::print_tyid_ (the universe holds no anonymous record,
\* variant, enum, flags, union or resource, whose printing panics).
print_tyid_(cx, id, mode) == print_tyid_of(cx, id, mode, TypeDefs[id])

\* print_tyid_ on a type id and its definition `ty`.
print_tyid_of(cx, id, mode, ty) ==
  LET info == cx.types[id]
      lt == lifetime_for(cx.opts.ownership, info, mode)
  IN IF ty.name # None
     THEN LET amp == IF info.has_list /\ lt = None /\ mode.tag = "AllBorrowed"
                     THEN Amp(mode.lt) ELSE ""
              name == IF lt # None THEN param_name(cx.opts.ownership, info, id)
                      ELSE result_name(cx.opts.ownership, info, id)
              path == IF ty.owner \in InterfaceIds /\ path_to_interface(cx, ty.owner) # None
                      THEN path_to_interface(cx, ty.owner) \o "::" ELSE ""
              generics == IF info.has_list /\ needs_generics(id)
                          THEN print_generics_(lt) ELSE ""
          IN amp \o path \o name \o generics
     ELSE CASE ty.kind = "list" -> print_list_(cx, ty.of[1], mode)
            [] ty.kind = "option" -> "Option<" \o print_ty_(cx, ty.of[1], mode) \o ">"
            [] ty.kind = "result" ->
                 "Result<" \o print_optional_ty_(cx, ty.of[1], mode) \o ","
                           \o print_optional_ty_(cx, ty.of[2], mode) \o ">"
            [] ty.kind = "tuple" ->
                 "(" \o Join([i \in 1..Len(ty.of) |-> print_ty_(cx, ty.of[i], mode) \o ","], "")
                     \o ")"
            [] ty.kind = "future" -> "Future<" \o print_optional_ty_(cx, ty.of[1], mode) \o ">"
            [] ty.kind = "stream" ->
                 "Stream<" \o print_optional_ty_(cx, ty.of[1], mode) \o ","
                           \o print_optional_ty_(cx, ty.of[2], mode) \o ">"
            [] ty.kind = "handle" -> "wasmtime::component::ResourceAny"
            [] ty.kind = "type" -> print_ty_(cx, ty.of[1], mode)

\* print_list_ with the elements printed in the mode of the list whatever
\* the ownership policy.
print_list_in_mode_of_list(cx, ty, mode) ==
  IF mode.tag = "AllBorrowed"
  THEN Amp(mode.lt) \o "[" \o print_ty_(cx, ty, mode) \o "]"
  ELSE "Vec<" \o print_ty_(cx, ty, mode) \o ">"

\* RustGenerator::print_list_
print_list_(cx, ty, mode) ==
  LET next_mode == IF cx.opts.ownership = Owning THEN Owned ELSE mode
  IN IF mode.tag = "AllBorrowed"
     THEN Amp(mode.lt) \o "[" \o print_ty_(cx, ty, next_mode) \o "]"
     ELSE "Vec<" \o print_ty_(cx, ty, next_mode) \o ">"

\* InterfaceGenerator::print_result_ty_
print_result_ty_(cx, results, mode) ==
  IF Len(results) = 0 THEN "()"
  ELSE IF Len(results) = 1 THEN print_ty_(cx, results[1], mode)
  ELSE "(" \o Join([i \in 1..Len(results) |-> print_ty_(cx, results[i], mode)], ", ") \o ")"

(***************************************************************************)
(* lib.rs: trappable errors                                                *)
(***************************************************************************)
\* resolve_type_definition_id: chase aliases down to the definition.
RECURSIVE resolve_type_definition_id(_)
\* resolve_type_definition_id on a type id and its definition.
resolve_alias(id, def) ==
  IF def.kind = "type" /\ IsId(def.of[1])
  THEN resolve_type_definition_id(def.of[1])
  ELSE id

resolve_type_definition_id(id) == resolve_alias(id, TypeDefs[id])

\* interfaces[id].types.get(name): the type the interface defines under a
\* name, or None.
TypeAmong(hits) == IF hits = {} THEN None ELSE CHOOSE t \in hits : TRUE

TypeNamed(interface, wit_name) ==
  TypeAmong({t \in Range(Interfaces[interface].types) : TypeDefs[t].name = wit_name})

\* InterfaceGenerator::trappable_error_types: the (type id, rust name) of
\* each configured mapping that applies to `owner` (an interface, or None).
trappable_error_types(cx, owner) ==
  LET applies(trappable) ==
        /\ owner \in InterfaceIds
        /\ trappable.wit_owner # None => Interfaces[owner].name = trappable.wit_owner
        /\ TypeNamed(owner, trappable.wit_name) # None
      kept == SelectSeq(cx.opts.trappable_error_type, applies)
  IN [i \in 1..Len(kept) |->
        [id |-> TypeNamed(owner, kept[i].wit_name), rust_name |-> kept[i].rust_name]]

\* The rust name of the first mapping found, or None.
RustNameOf(found) == IF found = <<>> THEN None ELSE found[1].rust_name

\* InterfaceGenerator::special_case_trappable_error: the rust error type of
\* a function whose only result is a result<_, E> with E a mapped type, or
\* None.
special_case_trappable_error(cx, owner, results) ==
  IF Len(results) # 1 \/ ~IsId(results[1]) THEN None
  ELSE IF TypeDefs[results[1]].kind # "result" THEN None
  ELSE IF ~IsId(TypeDefs[results[1]].of[2]) THEN None
  ELSE LET error_typeid == resolve_type_definition_id(TypeDefs[results[1]].of[2])
       IN RustNameOf(SelectSeq(trappable_error_types(cx, owner),
                               LAMBDA e : e.id = error_typeid))

\* The check of generate_trappable_error_types that the error is 'static.
TrappableLifetimeCheck(cx, wit_type) ==
  lifetime_for(cx.opts.ownership, cx.types[wit_type], Owned) # None

\* generate_trappable_error_types on the mappings that apply.
ErrorWrappers(cx, errs) ==
  IF \E i \in 1..Len(errs) : TrappableLifetimeCheck(cx, errs[i].id)
  THEN Panic("wit error is not 'static")
  ELSE Done([i \in 1..Len(errs) |->
              [t |-> "error_wrapper", name |-> errs[i].rust_name, id |-> errs[i].id,
               abi |-> param_name(cx.opts.ownership, cx.types[errs[i].id], errs[i].id)]])

\* InterfaceGenerator::generate_trappable_error_types: one error wrapper
\* per mapping, naming the representation it wraps.
generate_trappable_error_types(cx, owner) ==
  ErrorWrappers(cx, trappable_error_types(cx, owner))

(***************************************************************************)
(* lib.rs: the type definition emitter                                     *)
(***************************************************************************)
\* assert_type without its alignment assertion.
assert_type_size_only(id, name) ==
  << [t |-> "assert_size", name |-> name, n |-> SizeOf(id)] >>

\* InterfaceGenerator::assert_type: the size and the alignment assertion.
assert_type(id, name) ==
  << [t |-> "assert_size", name |-> name, n |-> SizeOf(id)],
     [t |-> "assert_align", name |-> name, n |-> AlignOf(id)] >>

\* An emitted definition: `pub struct`, `pub enum`, `pub type` or `flags!`.
Def(form, name, lt, id, mode, body) ==
  [t |-> "def", form |-> form, name |-> name, lt |-> lt, id |-> id, mode |-> mode,
   body |-> body]

\* The Display and Error impls of an error type.
ErrorImpls(info, name, lt) ==
  IF info.error
  THEN << [t |-> "impl", what |-> "Display", name |-> name, lt |-> lt],
          [t |-> "impl", what |-> "Error", name |-> name, lt |-> lt] >>
  ELSE <<>>

\* `for (name, mode) in self.modes_of(id) { ... }`
ForModes(cx, id, Emit(_, _)) ==
  LET modes == modes_of(cx.opts.ownership, cx.types[id], id)
  IN IF ~modes.ok THEN modes
     ELSE Done(Flatten([i \in 1..Len(modes.v) |-> Emit(modes.v[i].name, modes.v[i].mode)]))

Lt(cx, id, mode) == lifetime_for(cx.opts.ownership, cx.types[id], mode)

Members(cx, id, mode) ==
  [i \in 1..Len(TypeDefs[id].of) |-> print_optional_ty_(cx, TypeDefs[id].of[i], mode)]

\* type_record
type_record(cx, id) ==
  LET Emit(name, mode) ==
        <<Def("struct", name, Lt(cx, id, mode), id, mode, Members(cx, id, mode))>>
        \o ErrorImpls(cx.types[id], name, Lt(cx, id, mode))
        \o assert_type(id, name)
  IN ForModes(cx, id, Emit)

\* type_tuple, type_option, type_result, type_handle: a type alias of the printed shape.
type_shape(cx, id) ==
  LET Emit(name, mode) ==
        <<Def("type", name, Lt(cx, id, mode), id, mode, Members(cx, id, mode))>>
        \o assert_type(id, name)
  IN ForModes(cx, id, Emit)

\* type_list
type_list(cx, id) ==
  LET Emit(name, mode) ==
        <<Def("type", name, Lt(cx, id, mode), id, mode,
              <<print_list_(cx, TypeDefs[id].of[1], mode)>>)>>
        \o assert_type(id, name)
  IN ForModes(cx, id, Emit)

\* type_flags: emitted once, under the name of the interface's type map.
type_flags(cx, id, name) ==
  Done(<<Def("flags", to_rust_upper_camel_case(name), None, id, Owned, <<>>)>>
       \o assert_type(id, to_rust_upper_camel_case(name)))

\* type_variant, type_union: print_rust_enum
print_rust_enum(cx, id) ==
  LET Emit(name, mode) ==
        <<Def("enum", to_rust_upper_camel_case(name), Lt(cx, id, mode), id, mode,
              Members(cx, id, mode))>>
        \o ErrorImpls(cx.types[id], to_rust_upper_camel_case(name), Lt(cx, id, mode))
        \o assert_type(id, to_rust_upper_camel_case(name))
  IN ForModes(cx, id, Emit)

\* type_enum: emitted once, under the name of the interface's type map.
type_enum(cx, id, name) ==
  Done(<<Def("enum", to_rust_upper_camel_case(name), None, id, Owned, <<>>)>>
       \o ErrorImpls(cx.types[id], to_rust_upper_camel_case(name), None)
       \o assert_type(id, to_rust_upper_camel_case(name)))

\* type_alias: an alias of a resource is a `use`, any other a `pub type`.
type_alias(cx, id) ==
  LET Emit(name, mode) ==
        IF get_resource_from_ty(TypeDefs[id].of[1]) = <<>>
        THEN <<Def("type", name, Lt(cx, id, mode), id, mode, Members(cx, id, mode))>>
             \o assert_type(id, name)
        ELSE <<[t |-> "use", path |-> print_ty_(cx, TypeDefs[id].of[1], mode)]>>
  IN ForModes(cx, id, Emit)

(***************************************************************************)
(* lib.rs: resources                                                       *)
(***************************************************************************)
IsResourceFn(f, resource) ==
  Functions[f].kind \in {"Method", "Static", "Constructor"} /\ Functions[f].resource = resource

\* The return type of a trait signature (shared by the import and the export
\* resource signatures and by generate_function_trait_sig).
TraitReturn(cx, owner, func, self_ctor) ==
  LET err == special_case_trappable_error(cx, owner, func.results)
      ok == TypeDefs[func.results[1]].of[1]
  IN IF err # None
     THEN "Result<" \o (IF ok = None THEN "()"
                        ELSE IF self_ctor /\ func.kind = "Constructor" THEN "Self"
                        ELSE print_ty_(cx, ok, Owned))
                    \o "," \o err \o ">"
     ELSE "wasmtime::Result<"
          \o (IF self_ctor /\ func.kind = "Constructor" THEN "Self"
              ELSE print_result_ty_(cx, func.results, Owned))
          \o ">"

\* generate_guest_export_resource_function_trait_sig (declares no
\* parameter but the store) and generate_guest_import_resource_function_trait_sig.
resource_function_trait_sig(cx, dir, owner, func) ==
  [t |-> "trait_fn",
   name |-> IF func.kind = "Constructor" THEN "new" ELSE to_rust_ident(func.name),
   params |-> IF dir = "Export" THEN <<>>
              ELSE [i \in 1..Len(func.params) |-> print_ty_(cx, func.params[i], Owned)],
   ret |-> TraitReturn(cx, owner, func, TRUE)]

\* extract_typed_function: the snake name of the function it looks up.
extract_typed_function(func) == to_snake_case(func.name)

\* An export call that leaves out the post-return cleanup.
InvokeSteps_without_cleanup == <<"call">>

\* What every emitted export call does with the reference it resolved:
\* `callee.call(store, args)?;` then `callee.post_return(store)?;`.
InvokeSteps == <<"call", "post_return">>

\* define_rust_guest_export_resource_representation: one function of the
\* wrapper Rep<R>; `fields` are the references a constructor resolves.
define_rust_guest_export_resource_representation(cx, func, iface) ==
  LET fields == IF func.kind # "Constructor" THEN <<>>
                ELSE Map(SelectSeq(Interfaces[iface].functions,
                                   LAMBDA f : Functions[f].kind # "Freestanding"),
                         LAMBDA f : extract_typed_function(Functions[f]))
      n == Len(func.params)
      arg(i) == "arg" \o ToString(i)
  IN [t |-> "rep_fn",
      name |-> IF func.kind = "Constructor" THEN "new" ELSE to_snake_case(func.name),
      kind |-> func.kind,
      fields |-> fields,
      params |-> [i \in 1..n |-> print_ty_(cx, func.params[i], AllBorrowed("'_"))],
      declared |-> IF func.kind = "Constructor" THEN [i \in 1..n |-> arg(i - 1)]
                   ELSE [i \in 1..(IF n = 0 THEN 0 ELSE n - 1) |-> arg(i - 1)],
      args |-> IF func.kind = "Constructor" THEN [i \in 1..n |-> arg(i - 1)]
               ELSE (IF func.kind = "Method" THEN <<"self.to_handle()">> ELSE <<>>)
                    \o [i \in 1..(IF n = 0 THEN 0 ELSE n - 1) |-> arg(i - 1)],
      steps |-> InvokeSteps]

\* type_resource: the trait of the resource and, for an export, its wrapper.
type_resource(cx, dir, id, name) ==
  LET camel == to_upper_camel_case(name)
      owner == TypeDefs[id].owner
      fns == SelectSeq(Interfaces[owner].functions, LAMBDA f : IsResourceFn(f, id))
      trait == <<[t |-> "trait", name |-> camel]>>
               \o Map(fns, LAMBDA f : resource_function_trait_sig(cx, dir, owner, Functions[f]))
  IN IF owner \notin InterfaceIds
     THEN Panic("A resource must be owned by a world or interface")
     ELSE IF dir = "Import" THEN Done(trait)
     ELSE Done(trait
               \o <<[t |-> "rep_struct", name |-> "Rep" \o camel,
                     fields |-> Map(fns, LAMBDA f : to_snake_case(Functions[f].name))]>>
               \o Map(fns, LAMBDA f :
                        define_rust_guest_export_resource_representation(cx, Functions[f], owner)))

\* InterfaceGenerator::define_type
define_type(cx, dir, name, id) ==
  LET kind == TypeDefs[id].kind IN
  CASE kind = "record" -> type_record(cx, id)
    [] kind = "flags" -> type_flags(cx, id, name)
    [] kind \in {"tuple", "option", "result", "handle"} -> type_shape(cx, id)
    [] kind = "enum" -> type_enum(cx, id, name)
    [] kind \in {"variant", "union"} -> print_rust_enum(cx, id)
    [] kind = "list" -> type_list(cx, id)
    [] kind = "type" -> type_alias(cx, id)
    [] kind = "future" -> Panic("not yet implemented: generate for future")
    [] kind = "stream" -> Panic("not yet implemented: generate for stream")
    [] kind = "resource" -> type_resource(cx, dir, id, name)

\* The outcomes of a sequence of generator steps, joined: the first panic,
\* or all the tokens.
RECURSIVE Chain(_)
Chain(rs) ==
  IF rs = <<>> THEN Done(<<>>)
  ELSE IF ~Head(rs).ok THEN Head(rs)
  ELSE LET rest == Chain(Tail(rs))
       IN IF ~rest.ok THEN rest ELSE Done(Head(rs).v \o rest.v)

\* InterfaceGenerator::types: every type of the interface, in order.
types(cx, dir, id) ==
  Chain([i \in 1..Len(Interfaces[id].types) |->
           define_type(cx, dir, TypeDefs[Interfaces[id].types[i]].name,
                       Interfaces[id].types[i])])

(***************************************************************************)
(* lib.rs: the import side of an interface                                 *)
(***************************************************************************)
\* generate_function_trait_sig: the signature of a function of a Host trait.
generate_function_trait_sig(cx, owner, func) ==
  [t |-> "trait_fn",
   name |-> to_rust_ident(func.name),
   params |-> [i \in 1..Len(func.params) |-> print_ty_(cx, func.params[i], Owned)],
   ret |-> TraitReturn(cx, owner, func, FALSE)]

\* `arg0, arg1, ...`, from the `from`-th parameter on.
ArgNames(func, from) ==
  [i \in 1..(IF Len(func.params) < from THEN 0 ELSE Len(func.params) - from + 1) |->
     "arg" \o ToString(i + from - 2)]

\* The type of one parameter of the closure: the implementation of a resource
\* of the owner of the function (which must be configured), or the printed
\* owned type.
ClosureParam(cx, owner, param) ==
  LET resources == get_resource_from_ty(param)
  IN IF resources # <<>> /\ resources[1].owner = owner
     THEN IF resources[1].name \in DOMAIN cx.opts.resources
          THEN Done(<<"wasmtime::component::Resource<"
                      \o cx.opts.resources[resources[1].name] \o ">">>)
          ELSE Panic("resource " \o resources[1].name \o " doesn't have an implementation")
     ELSE Done(<<print_ty_(cx, param, Owned)>>)

\* The call the closure makes, by kind of function: a sequence of one string,
\* or the panic of a resource without implementation.
ClosureCall(cx, func) ==
  LET func_name == to_snake_case(func.name)
      named(resource_name, Call(_)) ==
        IF resource_name \in DOMAIN cx.opts.resources
        THEN Done(<<Call(cx.opts.resources[resource_name])>>)
        ELSE Panic("resource " \o resource_name \o " doesn't have an implementation")
  IN CASE func.kind = "Freestanding" -> Done(<<"host." \o func_name>>)
       [] func.kind = "Method" -> Done(<<"resource." \o func_name>>)
       [] func.kind = "Static" ->
            named(SubSeq(func.name, 8, Len(func.name)),
                  LAMBDA impl : impl \o "::" \o func_name)
       [] func.kind = "Constructor" ->
            named(SubSeq(func.name, 14, Len(func.name)),
                  LAMBDA impl : impl \o "::new")

\* ClosureAwaits with the constructor called as in the synchronous closure.
ClosureAwaits_sync_constructor(cx, func, call) ==
  IF cx.opts.async_ /\ func.kind # "Constructor" THEN call ELSE <<>>

\* The statements of the closure that end in `.await`: with the async
\* option, the call the closure makes, whatever the kind of the function.
ClosureAwaits(cx, func, call) ==
  CASE func.kind = "Freestanding" -> IF cx.opts.async_ THEN call ELSE <<>>
    [] func.kind = "Method" -> IF cx.opts.async_ THEN call ELSE <<>>
    [] func.kind = "Static" -> IF cx.opts.async_ THEN call ELSE <<>>
    [] func.kind = "Constructor" -> IF cx.opts.async_ THEN call ELSE <<>>

\* Whether the call statement of the closure ends in `?`, which returns the
\* error of the host from the closure at once: only `let resource =
\* Impl::new(..)?;` of the synchronous constructor does.
ClosurePropagates(cx, func) == func.kind = "Constructor" /\ ~cx.opts.async_

\* Whether the closure hands what its call returned to new_resource, its `r`
\* being the handle: the constructor does.
ClosureRegisters(func) == func.kind = "Constructor"

\* ClosureReturn without the special case of a trappable error.
ClosureReturn_untyped(cx, owner, func) ==
  IF Len(func.results) = 1
  THEN (IF func.kind = "Constructor" THEN "Ok((r,))" ELSE "Ok((r?,))")
  ELSE "r"

\* How the closure turns the host's `r` into what it returns.
ClosureReturn(cx, owner, func) ==
  IF special_case_trappable_error(cx, owner, func.results) # None THEN "downcast"
  ELSE IF Len(func.results) = 1
       THEN (IF func.kind = "Constructor" THEN "Ok((r,))" ELSE "Ok((r?,))")
  ELSE "r"

\* generate_guest_import_closure, wrapped by generate_add_function_to_linker:
\* the registration of one function with the linker.
generate_add_function_to_linker(cx, owner, func, linker) ==
  LET params == Chain([i \in 1..Len(func.params) |-> ClosureParam(cx, owner, func.params[i])])
      call == ClosureCall(cx, func)
  IN IF ~params.ok THEN params
     ELSE IF ~call.ok THEN call
     ELSE Done(<<[t |-> "func_wrap",
                  what |-> linker,
                  name |-> func.name,
                  kind |-> func.kind,
                  params |-> params.v,
                  steps |-> call.v,
                  awaits |-> ClosureAwaits(cx, func, call.v),
                  propagates |-> ClosurePropagates(cx, func),
                  registers |-> ClosureRegisters(func),
                  args |-> ArgNames(func, IF func.kind = "Method" THEN 2 ELSE 1),
                  ret |-> ClosureReturn(cx, owner, func)]>>)

\* The resource_set of generate_add_to_linker: the names of the resources in
\* the parameters of the functions of the interface.
ResourceSet(id) ==
  UNION {UNION {{r.name : r \in Range(get_resource_from_ty(Functions[f].params[i]))} :
                  i \in 1..Len(Functions[f].params)} :
           f \in Range(Interfaces[id].functions)}

\* `ResourceTable<impl> + ...`, in the order opts.resources iterates.
ResourceTraits(cx, map_order) ==
  Join([i \in 1..Len(map_order) |->
          "wasmtime::component::ResourceTable<" \o cx.opts.resources[map_order[i]] \o ">"],
       " + ")

\* generate_add_to_linker with a Host trait that mirrors every function.
generate_add_to_linker_host_of_all(cx, id, name, set_order, map_order) ==
  LET fns == Interfaces[id].functions
      uses == Chain([i \in 1..Len(set_order) |->
                IF set_order[i] \in DOMAIN cx.opts.resources
                THEN Done(<<[t |-> "use",
                             path |-> "super::super::super::"
                                      \o cx.opts.resources[set_order[i]]]>>)
                ELSE Panic("no implementation defined for resource " \o set_order[i])])
      host == <<[t |-> "trait", name |-> "Host"]>>
              \o Map(fns, LAMBDA f : generate_function_trait_sig(cx, id, Functions[f]))
      resource_traits == IF set_order # <<>> /\ map_order # <<>>
                         THEN ResourceTraits(cx, map_order) ELSE None
      where_clause ==
        IF cx.opts.async_
        THEN (IF resource_traits = None THEN "T: Send, U: Host + Send"
              ELSE "T: " \o resource_traits \o " + Send, U: Host + Send")
        ELSE (IF resource_traits = None THEN "U: Host"
              ELSE "T: " \o resource_traits \o ", U: Host")
      open == <<[t |-> "add_to_linker", name |-> name, what |-> where_clause]>>
      drops == IF set_order = <<>> THEN <<>>
               ELSE [i \in 1..Len(map_order) |->
                       [t |-> "inst_resource", name |-> map_order[i],
                        path |-> cx.opts.resources[map_order[i]]]]
      funcs == Chain([i \in 1..Len(fns) |->
                 generate_add_function_to_linker(cx, id, Functions[fns[i]], "inst")])
  IN Chain(<<uses, Done(host \o open \o drops), funcs>>)

\* generate_add_to_linker. `set_order` is the order in which resource_set
\* iterates and `map_order` the order in which opts.resources iterates.
generate_add_to_linker(cx, id, name, set_order, map_order) ==
  LET fns == Interfaces[id].functions
      uses == Chain([i \in 1..Len(set_order) |->
                IF set_order[i] \in DOMAIN cx.opts.resources
                THEN Done(<<[t |-> "use",
                             path |-> "super::super::super::"
                                      \o cx.opts.resources[set_order[i]]]>>)
                ELSE Panic("no implementation defined for resource " \o set_order[i])])
      host == <<[t |-> "trait", name |-> "Host"]>>
              \o Map(SelectSeq(fns, LAMBDA f : Functions[f].kind = "Freestanding"),
                     LAMBDA f : generate_function_trait_sig(cx, id, Functions[f]))
      resource_traits == IF set_order # <<>> /\ map_order # <<>>
                         THEN ResourceTraits(cx, map_order) ELSE None
      where_clause ==
        IF cx.opts.async_
        THEN (IF resource_traits = None THEN "T: Send, U: Host + Send"
              ELSE "T: " \o resource_traits \o " + Send, U: Host + Send")
        ELSE (IF resource_traits = None THEN "U: Host"
              ELSE "T: " \o resource_traits \o ", U: Host")
      open == <<[t |-> "add_to_linker", name |-> name, what |-> where_clause]>>
      drops == IF set_order = <<>> THEN <<>>
               ELSE [i \in 1..Len(map_order) |->
                       [t |-> "inst_resource", name |-> map_order[i],
                        path |-> cx.opts.resources[map_order[i]]]]
      funcs == Chain([i \in 1..Len(fns) |->
                 generate_add_function_to_linker(cx, id, Functions[fns[i]], "inst")])
  IN Chain(<<uses, Done(host \o open \o drops), funcs>>)

(***************************************************************************)
(* lib.rs: the export side                                                 *)
(***************************************************************************)
\* The keys of the BTreeMaps of the generator, in their order.
KeyOrder == <<"R1", "R2", "interface0", "interface1", "wg">>

KeyRank(k) == CHOOSE i \in 1..Len(KeyOrder) : KeyOrder[i] = k

\* The keys of a set, in BTreeMap order.
RECURSIVE Sorted(_)
Sorted(S) ==
  IF S = {} THEN <<>>
  ELSE LET least == CHOOSE k \in S : \A o \in S : KeyRank(k) <= KeyRank(o)
       IN <<least>> \o Sorted(S \ {least})

\* define_rust_guest_export: the `call_<name>` function of an export.  A
\* parameter that holds a resource of another owner is generic (R<i>, with
\* i the index of the parameter among the resource parameters).
define_rust_guest_export(cx, func, owner) ==
  LET n == Len(func.params)
      res(i) == get_resource_from_ty(func.params[i])
      idx(i) == Cardinality({j \in 1..(i - 1) : res(j) # <<>>})
      trait(i) == to_upper_camel_case(res(i)[1].name)
      foreign == {i \in 1..n : res(i) # <<>> /\ res(i)[1].owner # owner}
      \* args_map: the last insertion of a trait name wins
      arg_of(tr) == LET last == CHOOSE i \in foreign :
                                  /\ trait(i) = tr
                                  /\ \A j \in foreign : trait(j) = tr => j <= i
                    IN "R" \o ToString(idx(last))
      traits == Sorted({trait(i) : i \in foreign})
      generic(i) == i \in foreign
  IN [t |-> "call_fn",
      name |-> "call_" \o to_snake_case(func.name),
      declared |-> [k \in 1..Len(traits) |-> arg_of(traits[k]) \o ": " \o traits[k]],
      params |-> [i \in 1..n |-> IF generic(i) THEN arg_of(trait(i))
                                ELSE print_ty_(cx, func.params[i], AllBorrowed("'_"))],
      args |-> [i \in 1..n |->
                  IF generic(i) THEN "wasmtime::component::Resource<" \o arg_of(trait(i)) \o ">"
                  ELSE print_ty_(cx, func.params[i], AllBorrowed("'_"))],
      ret |-> print_result_ty_(cx, func.results, Owned),
      steps |-> (IF foreign = {} THEN <<>>
                 ELSE Map(SelectSeq([i \in 1..n |-> i], LAMBDA i : res(i) # <<>>),
                          LAMBDA i : "new_resource(arg" \o ToString(i - 1) \o ")"))
                \o InvokeSteps]

(***************************************************************************)
(* lib.rs: Wasmtime, the state of one run of the generator                 *)
(***************************************************************************)
\* An interface that name_interface has not named.
Unnamed == [remapped |-> FALSE, path |-> None]

\* Wasmtime::default(), with the order in which this run's opts.resources
\* iterates.
NewWasmtime(map_order) ==
  [status |-> "running",
   panic |-> None,
   src |-> <<>>,
   import_interfaces |-> <<>>,
   import_functions |-> <<>>,
   exports |-> [fields |-> <<>>, modules |-> <<>>, funcs |-> <<>>],
   interface_names |-> [i \in InterfaceIds |-> Unnamed],
   with_name_counter |-> 0,
   map_order |-> map_order]

\* A panic unwinds the run: nothing is returned.
Abort(g, msg) == [g EXCEPT !.status = "aborted", !.panic = msg, !.src = <<>>]

\* What the printer reads of the generator.
Cx(o, tys, g, cur, is_export) ==
  [opts |-> o, types |-> tys, interface_names |-> g.interface_names,
   cur |-> cur, is_export |-> is_export]

\* A PackageName as a key: `namespace:name`, with `@version` when it has one.
KeyOf(pkg) ==
  pkg.namespace \o ":" \o pkg.name
    \o (IF pkg.version = None THEN "" ELSE "@" \o pkg.version)

\* The package key of the module of an interface: None for an inline one.
PkgKey(id) ==
  IF Interfaces[id].key = "Name" THEN None
  ELSE KeyOf(Interfaces[id].package)

\* The PackageName a key stands for.
PackageOf(key) == CHOOSE pkg \in Range(PackageOrder) : KeyOf(pkg) = key

\* `pub mod <snake> { ... }`
Mod(name, items) == [t |-> "mod", name |-> name, items |-> items]

\* Wasmtime::name_interface: the generator with the interface named; the
\* caller reads `remapped` off the entry.
name_interface(o, g, id) ==
  LET with_name == name_world_key(id)
  IN IF with_name \in DOMAIN o.with
     THEN LET name == "__with_name" \o ToString(g.with_name_counter)
          IN [g EXCEPT !.with_name_counter = @ + 1,
                       !.src = Append(@, [t |-> "use_as", path |-> o.with[with_name],
                                          name |-> name]),
                       !.interface_names[id] = [remapped |-> TRUE, path |-> name]]
     ELSE [g EXCEPT !.interface_names[id] =
             [remapped |-> FALSE,
              path |-> IF Interfaces[id].key = "Name" THEN to_snake_case(Interfaces[id].name)
                       ELSE to_snake_case(Interfaces[id].package.namespace) \o "::"
                            \o to_snake_case(Interfaces[id].package.name) \o "::"
                            \o to_snake_case(Interfaces[id].name)]]

\* A world item: a function or an interface.
Item(kind, id) == [kind |-> kind, id |-> id]

\* import of a world-level function: its signature for the world trait and
\* its registration with the root linker.
import_function(g, sig, add) ==
  IF ~add.ok THEN Abort(g, add.v[1])
  ELSE [g EXCEPT !.import_functions = Append(@, [sig |-> sig, add_to_linker |-> add.v[1]])]

\* import of an interface that is not remapped: `module` is what its
\* generator emitted.
import_module(g, id, snake, module) ==
  IF ~module.ok THEN Abort(g, module.v[1])
  ELSE [g EXCEPT !.import_interfaces =
          Append(@, [pkg |-> PkgKey(id), snake |-> snake, module |-> Mod(snake, module.v)])]

\* import of an interface, once name_interface has named it.
import_interface(cx, named, id, set_order) ==
  IF named.interface_names[id].remapped THEN named
  ELSE import_module(named, id, to_snake_case(Interfaces[id].name),
                     Chain(<<types(cx, "Import", id),
                             generate_trappable_error_types(cx, id),
                             generate_add_to_linker(cx, id, name_world_key(id),
                                                    set_order, named.map_order)>>))

\* Wasmtime::import.  `set_order` is the order in which the resource_set of
\* generate_add_to_linker iterates.
import(o, tys, g, item, set_order) ==
  IF item.kind = "Function"
  THEN import_function(g,
         generate_function_trait_sig(Cx(o, tys, g, None, FALSE), None, Functions[item.id]),
         generate_add_function_to_linker(Cx(o, tys, g, None, FALSE), None,
                                         Functions[item.id], "linker"))
  ELSE import_interface(Cx(o, tys, name_interface(o, g, item.id), item.id, FALSE),
                        name_interface(o, g, item.id), item.id, set_order)

\* exports.fields.insert(field, (ty, getter)) without the assertion: the new
\* value takes the place of the one the map held under the name.
InsertField_overwriting(g, field, ty) ==
  [g EXCEPT !.exports.fields =
     IF \E i \in 1..Len(g.exports.fields) : g.exports.fields[i].name = field
     THEN [i \in 1..Len(g.exports.fields) |->
             IF g.exports.fields[i].name = field THEN [name |-> field, path |-> ty]
             ELSE g.exports.fields[i]]
     ELSE Append(@, [name |-> field, path |-> ty])]

\* exports.fields.insert(field, (ty, getter)) and the assertion that the
\* field is new.
InsertField(g, field, ty) ==
  IF \E i \in 1..Len(g.exports.fields) : g.exports.fields[i].name = field
  THEN Abort(g, "assertion failed: prev.is_none()")
  ELSE [g EXCEPT !.exports.fields = Append(@, [name |-> field, path |-> ty])]

\* export of a world-level function.
export_function(g, func, body) ==
  InsertField([g EXCEPT !.exports.funcs = Append(@, body)],
              to_snake_case(func.name), "wasmtime::component::Func")

\* The path of the struct of an exported interface.
ExportPath(id, snake, camel) ==
  IF PkgKey(id) = None THEN "exports::" \o snake \o "::" \o camel
  ELSE "exports::" \o to_snake_case(Interfaces[id].package.namespace) \o "::"
       \o to_snake_case(Interfaces[id].package.name) \o "::" \o snake \o "::" \o camel

\* The name of the accessor of an exported interface.
ExportMethod(id, snake) ==
  IF PkgKey(id) = None THEN snake
  ELSE to_snake_case(Interfaces[id].package.namespace) \o "_"
       \o to_snake_case(Interfaces[id].package.name) \o "_" \o snake

\* The freestanding functions of an interface.
Freestanding(id) ==
  SelectSeq(Interfaces[id].functions, LAMBDA f : Functions[f].kind = "Freestanding")

\* export of an interface: `head` is what types and
\* generate_trappable_error_types emitted, `calls` the call_<name> functions.
export_module(g, id, snake, camel, fields, head, calls) ==
  IF ~head.ok THEN Abort(g, head.v[1])
  ELSE InsertField(
         [g EXCEPT
            !.exports.modules =
               Append(@, [pkg |-> PkgKey(id),
                          module |-> Mod(snake,
                             head.v
                             \o <<[t |-> "export_struct", name |-> camel, fields |-> fields],
                                  [t |-> "export_new", name |-> camel, fields |-> fields]>>
                             \o calls)]),
            !.exports.funcs =
               Append(@, [t |-> "accessor", name |-> ExportMethod(id, snake),
                          path |-> ExportPath(id, snake, camel)])],
         "interface" \o ToString(Len(g.exports.fields)),
         ExportPath(id, snake, camel))

\* export of an interface, once name_interface has named it.
export_interface(cx, named, id) ==
  export_module(named, id,
                to_snake_case(Interfaces[id].name),
                to_rust_upper_camel_case(Interfaces[id].name),
                Map(Freestanding(id), LAMBDA f : extract_typed_function(Functions[f])),
                Chain(<<types(cx, "Export", id), generate_trappable_error_types(cx, id)>>),
                Map(Freestanding(id), LAMBDA f : define_rust_guest_export(cx, Functions[f], id)))

\* Wasmtime::export.  What name_interface returns is not looked at.
export(o, tys, g, item) ==
  IF item.kind = "Function"
  THEN export_function(g, Functions[item.id],
         define_rust_guest_export(Cx(o, tys, g, None, TRUE), Functions[item.id], None))
  ELSE export_interface(Cx(o, tys, name_interface(o, g, item.id), item.id, TRUE),
                        name_interface(o, g, item.id), item.id)

\* The name of the world of the universe.
WorldName == "the-world"

\* The keys of a BTreeMap keyed by Option<PackageName> other than None, in
\* their order.
PackagesOf(entries) ==
  SelectSeq(PackageOrder, LAMBDA pkg : \E i \in 1..Len(entries) : entries[i].pkg = KeyOf(pkg))

\* A BTreeMap keyed by Option<PackageName> iterates the inline entries (None)
\* first, then the entries of each package in the order of the packages.
ByPackage(entries) ==
  SelectSeq(entries, LAMBDA e : e.pkg = None)
    \o Flatten(Map(PackagesOf(entries),
                   LAMBDA pkg : SelectSeq(entries, LAMBDA e : e.pkg = KeyOf(pkg))))

\* The namespaces of a sequence of packages, each once, in their order.
RECURSIVE Namespaces(_)
Namespaces(pkgs) ==
  IF pkgs = <<>> THEN <<>>
  ELSE <<pkgs[1].namespace>>
       \o Namespaces(SelectSeq(Tail(pkgs), LAMBDA pkg : pkg.namespace # pkgs[1].namespace))

\* The modules of a package, in the order they were pushed.
ModulesOfPackage(entries, pkg) ==
  Map(SelectSeq(entries, LAMBDA e : e.pkg = KeyOf(pkg)), LAMBDA e : e.module)

\* emit_modules, second loop: `pub mod <namespace> {`, and in it one
\* `pub mod <package> { ... }` per name entered in the map of the namespace.
EmitNamespace(entries, pkgs, ns) ==
  Mod(to_snake_case(ns),
      Map(SelectSeq(pkgs, LAMBDA pkg : pkg.namespace = ns),
          LAMBDA pkg : Mod(to_snake_case(pkg.name), ModulesOfPackage(entries, pkg))))

\* emit_modules on a map whose packages are pkgs, in order.  The packages
\* are first entered in a map from namespace to a map from name, and
\* `assert!(prev.is_none())` fails when a name is entered twice in the map
\* of its namespace; the inline modules are written in that loop.
EmitPackages(entries, pkgs) ==
  IF \E i, j \in 1..Len(pkgs) : /\ i < j
                                 /\ pkgs[i].namespace = pkgs[j].namespace
                                 /\ pkgs[i].name = pkgs[j].name
  THEN Panic("assertion failed: prev.is_none()")
  ELSE Done(Map(SelectSeq(entries, LAMBDA e : e.pkg = None), LAMBDA e : e.module)
            \o Map(Namespaces(pkgs), LAMBDA ns : EmitNamespace(entries, pkgs, ns)))

\* Wasmtime::emit_modules: the inline modules, then the modules of each
\* package inside `pub mod <namespace> { pub mod <package> { ... } }`.
emit_modules(entries) == EmitPackages(entries, PackagesOf(entries))

\* Wasmtime::toplevel_import_trait
toplevel_import_trait(g) ==
  IF g.import_functions = <<>> THEN <<>>
  ELSE <<[t |-> "trait", name |-> to_rust_upper_camel_case(WorldName) \o "Imports"]>>
       \o Map(g.import_functions, LAMBDA f : f.sig)

\* Wasmtime::toplevel_add_to_linker
toplevel_add_to_linker(o, g) ==
  LET interfaces == Map(ByPackage(g.import_interfaces),
                        LAMBDA e : (IF e.pkg = None THEN ""
                                    ELSE to_snake_case(PackageOf(e.pkg).namespace) \o "::"
                                         \o to_snake_case(PackageOf(e.pkg).name) \o "::")
                                   \o e.snake)
      world_trait == to_rust_upper_camel_case(WorldName) \o "Imports"
      bounds == Map(interfaces, LAMBDA n : n \o "::Host")
                \o (IF g.import_functions = <<>> THEN <<>> ELSE <<world_trait>>)
      traits == Join([i \in 1..Len(g.map_order) |->
                        "wasmtime::component::ResourceTable<"
                        \o o.resources[g.map_order[i]] \o ">"], " + ")
      maybe_send ==
        IF o.async_
        THEN (IF g.map_order = <<>> THEN " + Send, T: Send"
              ELSE " + Send, T: " \o traits \o " + Send")
        ELSE (IF g.map_order = <<>> THEN "" ELSE ", T: " \o traits)
  IN IF g.import_interfaces = <<>> /\ g.import_functions = <<>> THEN <<>>
     ELSE <<[t |-> "add_to_linker", name |-> WorldName,
             what |-> "U: " \o Join(bounds, " + ") \o maybe_send]>>
          \o Map(interfaces, LAMBDA n : [t |-> "call", name |-> n \o "::add_to_linker"])
          \o (IF g.import_functions = <<>> THEN <<>>
              ELSE <<[t |-> "call", name |-> "Self::add_root_to_linker"],
                     [t |-> "add_root_to_linker", name |-> WorldName,
                      what |-> "U: " \o world_trait \o maybe_send]>>
                   \o Map(g.import_functions, LAMBDA f : f.add_to_linker))

\* The fields of exports.fields, in the order of their names.
FieldsInOrder(g) ==
  Map(Sorted({g.exports.fields[i].name : i \in 1..Len(g.exports.fields)}),
      LAMBDA k : CHOOSE f \in Range(g.exports.fields) : f.name = k)

\* Wasmtime::build_struct: the struct of the world, its add_to_linker, its
\* instantiate functions and the accessors of its exports.
build_struct(o, g) ==
  LET camel == to_rust_upper_camel_case(WorldName)
      fields == FieldsInOrder(g)
  IN <<[t |-> "world_struct", name |-> camel,
        fields |-> Map(fields, LAMBDA f : f.name \o ": " \o f.path)]>>
     \o toplevel_import_trait(g)
     \o toplevel_add_to_linker(o, g)
     \o <<[t |-> "instantiate", name |-> camel, kind |-> IF o.async_ THEN "async" ELSE "sync"],
          [t |-> "world_new", name |-> camel, fields |-> Map(fields, LAMBDA f : f.name)]>>
     \o g.exports.funcs

\* finish, once the modules of the imports and of the exports are emitted:
\* a failed assertion of emit_modules unwinds the run, otherwise the text is
\* taken out of the generator.
Finished(g, built, imports, exports) ==
  IF ~imports.ok THEN Abort(g, imports.v[1])
  ELSE IF ~exports.ok THEN Abort(g, exports.v[1])
  ELSE [g EXCEPT !.status = "done",
                 !.src = built \o imports.v
                         \o (IF g.exports.modules = <<>> THEN <<>>
                             ELSE <<Mod("exports", exports.v)>>),
                 !.import_interfaces = <<>>,
                 !.exports.modules = <<>>]

\* Wasmtime::finish: the text the run returns.
finish(o, g) ==
  LET built == IF o.only_interfaces THEN g.src ELSE g.src \o build_struct(o, g)
  IN Finished(g, built, emit_modules(g.import_interfaces),
              IF g.exports.modules = <<>> THEN Done(<<>>)
              ELSE emit_modules(g.exports.modules))

(***************************************************************************)
(* The emitted registration glue, as the steps it performs when called     *)
(***************************************************************************)
\* One statement of an emitted function: the call of another emitted
\* function ("enter"), `linker.instance(name)`, `linker.root()`,
\* `inst.resource::<Impl>(name, ..)` or `inst.func_wrap(name, ..)`.
\* `inst` is the instance the statement registers in.
LinkStep(op, inst, name) == [op |-> op, inst |-> inst, name |-> name]

\* The statements of the add_to_linker of an interface module, in the order
\* generate_add_to_linker wrote them.
ModuleSteps(items) ==
  LET inst == Tokens(items, "add_to_linker")[1].name
  IN Flatten([i \in 1..Len(items) |->
       CASE items[i].t = "add_to_linker" -> <<LinkStep("instance", inst, inst)>>
         [] items[i].t = "inst_resource" -> <<LinkStep("resource", inst, items[i].name)>>
         [] items[i].t = "func_wrap" -> <<LinkStep("func_wrap", inst, items[i].name)>>
         [] OTHER -> <<>>])

\* The interface modules of a text, each under the path the text refers to
\* it by: inline modules at the top, the others in `ns::pk`.
ModulesByPath(src) ==
  LET top == Tokens(src, "mod")
      nested(m) == IF m.name = "ns"
                   THEN Map(Tokens(m.items[1].items, "mod"),
                            LAMBDA x : [path |-> "ns::pk::" \o x.name, items |-> x.items])
                   ELSE IF m.name = "exports" THEN <<>>
                   ELSE <<[path |-> m.name, items |-> m.items]>>
  IN Flatten([i \in 1..Len(top) |-> nested(top[i])])

\* The statements one call of the combined add_to_linker leads to: the
\* body of the add_to_linker of a module, or of add_root_to_linker.
CalleeSteps(src, callee) ==
  IF callee = "Self::add_root_to_linker"
  THEN <<LinkStep("root", "root", "root")>>
       \o Map(Tokens(src, "func_wrap"), LAMBDA f : LinkStep("func_wrap", "root", f.name))
  ELSE Flatten(Map(SelectSeq(ModulesByPath(src),
                             LAMBDA m : m.path \o "::add_to_linker" = callee),
                   LAMBDA m : ModuleSteps(m.items)))

\* The statements of the combined add_to_linker of a text, each call
\* followed by the statements of its callee.
LinkProgram(src) ==
  Flatten(Map(Tokens(src, "call"),
              LAMBDA c : <<LinkStep("enter", "linker", c.name)>> \o CalleeSteps(src, c.name)))

\* The export calls of a text: the call_<name> functions and the functions
\* of the resource wrappers, in the modules as well.
RECURSIVE ExportCalls(_)
ExportCalls(src) ==
  Flatten([i \in 1..Len(src) |->
             IF src[i].t = "mod" THEN ExportCalls(src[i].items)
             ELSE IF src[i].t \in {"call_fn", "rep_fn"} THEN <<src[i]>>
             ELSE <<>>])

\* The statements of an export call, in the order of its body.
ExportSteps(tok) == Map(tok.steps, LAMBDA st : LinkStep(st, "callee", tok.name))

\* The statements that end in `?`.
Fallible(step) ==
  step.op \in {"instance", "resource", "func_wrap", "call", "post_return"}

\* A statement that discards the error of a failed registration.
Try_discarding_error(e, ok) ==
  [e EXCEPT !.log = Append(@, [step |-> e.prog[Len(e.log) + 1], ok |-> ok]),
            !.phase = IF Len(e.log) + 1 = Len(e.prog) THEN "ok" ELSE "running"]

\* `statement?;` : the next statement of the execution succeeds or fails;
\* a failure is returned to the caller at once, and after the last
\* statement the function returns Ok(()).
Try(e, ok) ==
  [e EXCEPT !.log = Append(@, [step |-> e.prog[Len(e.log) + 1], ok |-> ok]),
            !.phase = IF ~ok THEN "err"
                      ELSE IF Len(e.log) + 1 = Len(e.prog) THEN "ok" ELSE "running"]

(***************************************************************************)
(* rust.rs: write_name and union_case_names, the names of a union's cases  *)
(***************************************************************************)
\* Handle::Borrow, as opposed to Handle::Own, among the handles of the universe.
HandleBorrows == {"borrow_r1", "borrow_r3", "borrow_r4"}

\* write_name on a primitive type.
PrimitiveName(t) ==
  CASE t = "bool" -> "Bool"
    [] t = "u8" -> "U8"
    [] t = "u16" -> "U16"
    [] t = "u32" -> "U32"
    [] t = "u64" -> "U64"
    [] t = "s8" -> "I8"
    [] t = "s16" -> "I16"
    [] t = "s32" -> "I32"
    [] t = "s64" -> "I64"
    [] t = "float32" -> "F32"
    [] t = "float64" -> "F64"
    [] t = "char" -> "Char"
    [] t = "string" -> "String"

RECURSIVE write_name(_)
\* write_optional_name: the name of the type, or "()" when there is none.
write_optional_name(of, i) == IF i <= Len(of) THEN write_name(of[i]) ELSE "()"

\* write_name: the camel-cased name of a type, as used to name union cases.
write_name(t) ==
  IF ~IsId(t) THEN PrimitiveName(t)
  ELSE LET d == TypeDefs[t] IN
    IF d.name # None THEN to_upper_camel_case(d.name)
    ELSE CASE d.kind = "option" -> "Optional" \o write_name(d.of[1])
           [] d.kind = "result" -> "Result"
           [] d.kind = "tuple" -> "Tuple"
           [] d.kind = "list" -> write_name(d.of[1]) \o "List"
           [] d.kind = "future" -> write_optional_name(d.of, 1) \o "Future"
           [] d.kind = "stream" ->
                write_optional_name(d.of, 1) \o write_optional_name(d.of, 2) \o "Stream"
           [] d.kind = "type" -> write_name(d.of[1])
           [] d.kind = "record" -> "Record"
           [] d.kind = "flags" -> "Flags"
           [] d.kind = "variant" -> "Variant"
           [] d.kind = "enum" -> "Enum"
           [] d.kind = "union" -> "Union"
           [] d.kind = "handle" /\ t \notin HandleBorrows -> write_name(d.of[1]) \o "Own"
           [] d.kind = "handle" /\ t \in HandleBorrows -> write_name(d.of[1]) \o "Borrow"
           [] d.kind = "resource" -> "Resource"

\* UsedState: a name was produced once, by the case at index `first`, or
\* several times, `n` being the suffix of its next occurrence.
Once(first) == [tag |-> "Once", first |-> first, n |-> 0]
Multiple(n) == [tag |-> "Multiple", first |-> 0, n |-> n]

\* union_case_names before its loop: one empty name per case, no used name.
StartNaming(cases) ==
  [cases |-> cases, case_names |-> [i \in 1..Len(cases) |-> ""], used |-> <<>>, at |-> 0]

\* One iteration of the loop of union_case_names, on the case after `at`:
\* the name of its type is written, then looked up in `used` as written.
\* An unused name is recorded as Once; a name used Once has "0" pushed on
\* its first occurrence and "1" on this one; a name used Multiple(n) times
\* gets the suffix n.
NameNextCase(st) ==
  LET k == st.at + 1
      name == write_name(st.cases[k])
  IN IF name \notin DOMAIN st.used
     THEN [st EXCEPT !.case_names[k] = name,
                     !.used = (name :> Once(k)) @@ st.used,
                     !.at = k]
     ELSE IF st.used[name].tag = "Multiple"
     THEN [st EXCEPT !.case_names[k] = name \o ToString(st.used[name].n),
                     !.used[name] = Multiple(st.used[name].n + 1),
                     !.at = k]
     ELSE [st EXCEPT !.case_names[st.used[name].first] = @ \o "0",
                     !.case_names[k] = name \o "1",
                     !.used[name] = Multiple(2),
                     !.at = k]

(***************************************************************************)
(* wasi-nn ctx.rs: Table, the handle table of a WasiNnCtx                  *)
(***************************************************************************)
\* The width of next_key (a u32 in the source), and the keys it can hold.
KeyBits == 2
KeyLimit == 2 ^ KeyBits

\* Table::use_next_key: the current key is handed out and next_key is
\* incremented, wrapping at the width of the key.
use_next_key(t) ==
  [key |-> t.next_key, table |-> [t EXCEPT !.next_key = (@ + 1) % KeyLimit]]

\* `self.next_key += 1` overflows.
Overflows(t) == t.next_key + 1 >= KeyLimit

\* Table::insert on the key use_next_key handed out: HashMap::insert puts
\* the value under the key, replacing what the key held.
InsertUnder(used, value) ==
  [key |-> used.key,
   table |-> [used.table EXCEPT !.entries = (used.key :> value) @@ @]]

\* Table::insert
insert(t, value) == InsertUnder(use_next_key(t), value)

\* Table::get: Some(value) as <<value>>, None as <<>>.
get(t, key) == IF key \in DOMAIN t.entries THEN <<t.entries[key]>> ELSE <<>>

(***************************************************************************)
(* State                                                                   *)
(***************************************************************************)
VARIABLES
  opts,    \* lib.rs Opts: the configuration of the run
  infos,   \* Wasmtime.types: the TypeInfo of every type id
  \* the resolver and the type emitter applied to one type
  ty,      \* the type id the resolver is asked about (None when idle)
  mode,    \* the TypeMode lifetime_for is asked about
  reps,    \* what modes_of returned
  lt,      \* what lifetime_for returned
  defs,    \* what define_type emitted
  printed, \* what print_list_ rendered
  shown,   \* what print_tyid_ rendered for a reference to ty
  called,  \* the functions that have been called on ty
  \* two runs of Opts::generate on the same input
  world,   \* the world: its import items and its export items, in order
  pc,      \* the index of the next world item (0 when idle)
  runs,    \* the Wasmtime of the first and of the second run
  \* one execution of a function of the emitted text
  exec,    \* its steps, and the steps performed so far with their outcomes
  \* one call of an imported function through the glue a run emitted
  call,    \* the function, its glue, what the host returned, what the guest got
  \* one call of union_case_names on one union
  naming,  \* the union's cases, the names given so far and the map of used names
  \* one Table of a WasiNnCtx
  graphs   \* its entries and next_key, and the inserts and the get made so far

typeVars == <<ty, mode, reps, lt, defs, printed, shown, called>>
genVars == <<world, pc, runs>>
auxVars == <<naming, graphs>>
vars == <<opts, infos, ty, mode, reps, lt, defs, printed, shown, called, world, pc, runs, exec, call, naming, graphs>>

\* Whether fn has been called on ty.
Called(fn) == fn \in called

\* What a host function returned: Ok(val), or Err of an error whose concrete
\* type is ety and whose payload is val.
HostOk(val) == [tag |-> "Ok", ety |-> None, val |-> val]
HostErr(ety, val) == [tag |-> "Err", ety |-> ety, val |-> val]
NoReturn == [tag |-> "none", ety |-> None, val |-> 0]

\* What a call delivered to the guest: a trap (nothing), or the value ok(val)
\* or err(val) of a successful call.
Trap == [trap |-> TRUE, tag |-> "none", val |-> 0]
Delivered(tag, val) == [trap |-> FALSE, tag |-> tag, val |-> val]
NoOutcome == [trap |-> FALSE, tag |-> "none", val |-> 0]

\* No function of the emitted text is being executed.
NoExec == [phase |-> "idle", fn |-> None, prog |-> <<>>, log |-> <<>>]

\* No call is being made.
NoCall == [phase |-> "idle", func |-> None, panic |-> None, sig |-> None, trappable |-> FALSE, ret |-> None, abi |-> None,
           steps |-> <<>>, awaits |-> <<>>, suspended |-> <<>>,
           propagates |-> FALSE, registers |-> FALSE, table |-> 0,
           host |-> NoReturn, guest |-> NoOutcome]

\* union_case_names is not being called.
NoNaming == [cases |-> <<>>, case_names |-> <<>>, used |-> <<>>, at |-> 0]

\* Table::default, in a build without overflow checks, with no insert and
\* no get made: `inserted` is the (key, value) of every insert that
\* returned, `got` is the (key, result) of the last get made since the
\* last insert.
NoTable ==
  [entries |-> <<>>, next_key |-> 0, overflow_checks |-> FALSE,
   inserted |-> <<>>, got |-> <<>>, panicked |-> FALSE]

\* TrappableError { wit_name, wit_owner, rust_name }
TrappableError(wit_name, wit_owner, rust_name) ==
  [wit_name |-> wit_name, wit_owner |-> wit_owner, rust_name |-> rust_name]

\* Opts::default(), but for the ownership policy.
DefaultOpts(ownership) ==
  [ownership |-> ownership, async_ |-> FALSE, only_interfaces |-> FALSE,
   trappable_error_type |-> <<>>, with |-> <<>>, resources |-> <<>>]

\* A type nothing uses.
Unused == [owned |-> FALSE, borrowed |-> FALSE, has_list |-> FALSE, error |-> FALSE]

\* Every interface named by its own path, as after name_interface without
\* remapping.
PlainNames ==
  [i \in InterfaceIds |->
     [remapped |-> FALSE,
      path |-> IF Interfaces[i].key = "Name" THEN to_snake_case(Interfaces[i].name)
               ELSE Interfaces[i].package.namespace \o "::" \o Interfaces[i].package.name
                    \o "::" \o Interfaces[i].name]]

\* The types an interface defines: the ones define_type is called on.
DefinedTypes == {t \in TypeIds : TypeDefs[t].owner \in InterfaceIds}

\* What the printer reads while the types of the owner of ty are emitted.
TypeCx(dir) ==
  [opts |-> opts, types |-> infos, interface_names |-> PlainNames,
   cur |-> TypeDefs[ty].owner, is_export |-> (dir = "Export")]

(***************************************************************************)
(* The resolver and the emitter applied to one type: the inputs are drawn  *)
(* from every ownership policy, every TypeInfo, every defined type and     *)
(* every mode; each function is then called on them.                       *)
(***************************************************************************)
InitTypes ==
  /\ opts \in {DefaultOpts(o) : o \in Ownership}
  /\ ty \in DefinedTypes
  /\ infos \in {[t \in TypeIds |-> IF t = ty THEN i ELSE Unused] : i \in TypeInfo}
  /\ mode \in TypeMode
  /\ reps = Done(<<>>)
  /\ lt = None
  /\ defs = Done(<<>>)
  /\ printed = None /\ shown = None
  /\ called = {}
  /\ world = [imports |-> <<>>, exports |-> <<>>]
  /\ pc = 0
  /\ runs = <<NewWasmtime(<<>>), NewWasmtime(<<>>)>>
  /\ call = NoCall
  /\ exec = NoExec
  /\ naming = NoNaming
  /\ graphs = NoTable

\* self.modes_of(ty)
CallModesOf ==
  /\ ty # None /\ ~Called("modes_of")
  /\ called' = called \cup {"modes_of"}
  /\ reps' = modes_of(opts.ownership, infos[ty], ty)
  /\ UNCHANGED <<opts, infos, ty, mode, lt, defs, printed, shown>>
  /\ UNCHANGED genVars
  /\ UNCHANGED <<exec, call>>
  /\ UNCHANGED auxVars

\* self.lifetime_for(&info, mode)
CallLifetimeFor ==
  /\ ty # None /\ ~Called("lifetime_for")
  /\ called' = called \cup {"lifetime_for"}
  /\ lt' = lifetime_for(opts.ownership, infos[ty], mode)
  /\ UNCHANGED <<opts, infos, ty, mode, reps, defs, printed, shown>>
  /\ UNCHANGED genVars
  /\ UNCHANGED <<exec, call>>
  /\ UNCHANGED auxVars

\* self.define_type(dir, name, ty)
CallDefineType ==
  /\ ty # None /\ ~Called("define_type")
  /\ called' = called \cup {"define_type"}
  /\ \E dir \in {"Import", "Export"} :
       defs' = define_type(TypeCx(dir), dir, TypeDefs[ty].name, ty)
  /\ UNCHANGED <<opts, infos, ty, mode, reps, lt, printed, shown>>
  /\ UNCHANGED genVars
  /\ UNCHANGED <<exec, call>>
  /\ UNCHANGED auxVars

\* self.print_list(elem, mode), for a type that is a list of elem.
CallPrintList ==
  /\ ty # None /\ TypeDefs[ty].kind = "list" /\ ~Called("print_list_")
  /\ called' = called \cup {"print_list_"}
  /\ printed' = print_list_(TypeCx("Import"), TypeDefs[ty].of[1], mode)
  /\ UNCHANGED <<opts, infos, ty, mode, reps, lt, defs, shown>>
  /\ UNCHANGED genVars
  /\ UNCHANGED <<exec, call>>
  /\ UNCHANGED auxVars

\* self.print_tyid(ty, mode): a reference to ty from inside its interface.
CallPrintTyid ==
  /\ ty # None /\ ~Called("print_tyid_")
  /\ called' = called \cup {"print_tyid_"}
  /\ shown' = print_tyid_(TypeCx("Import"), ty, mode)
  /\ UNCHANGED <<opts, infos, ty, mode, reps, lt, defs, printed>>
  /\ UNCHANGED genVars
  /\ UNCHANGED <<exec, call>>
  /\ UNCHANGED auxVars

\* A second self.modes_of(ty) that answers from what has been emitted since
\* the first: nothing for a type whose definition is already written.
RecallModesOf_reading_emitted ==
  /\ ty # None /\ Called("modes_of") /\ ~Called("modes_of again")
  /\ called' = called \cup {"modes_of again"}
  /\ reps' = IF Called("define_type") THEN Done(<<>>)
             ELSE modes_of(opts.ownership, infos[ty], ty)
  /\ UNCHANGED <<opts, infos, ty, mode, lt, defs, printed, shown>>
  /\ UNCHANGED genVars
  /\ UNCHANGED <<exec, call>>
  /\ UNCHANGED auxVars

\* self.modes_of(ty), a second time, after whatever was called in between.
RecallModesOf ==
  /\ ty # None /\ Called("modes_of") /\ ~Called("modes_of again")
  /\ called' = called \cup {"modes_of again"}
  /\ reps' = modes_of(opts.ownership, infos[ty], ty)
  /\ UNCHANGED <<opts, infos, ty, mode, lt, defs, printed, shown>>
  /\ UNCHANGED genVars
  /\ UNCHANGED <<exec, call>>
  /\ UNCHANGED auxVars

\* self.lifetime_for(&info, mode), a second time.
RecallLifetimeFor ==
  /\ ty # None /\ Called("lifetime_for") /\ ~Called("lifetime_for again")
  /\ called' = called \cup {"lifetime_for again"}
  /\ lt' = lifetime_for(opts.ownership, infos[ty], mode)
  /\ UNCHANGED <<opts, infos, ty, mode, reps, defs, printed, shown>>
  /\ UNCHANGED genVars
  /\ UNCHANGED <<exec, call>>
  /\ UNCHANGED auxVars

NextTypes ==
  \/ CallModesOf \/ CallLifetimeFor \/ CallDefineType \/ CallPrintList
  \/ RecallModesOf \/ RecallLifetimeFor \/ CallPrintTyid

SpecTypes == InitTypes /\ [][NextTypes]_vars

(***************************************************************************)
(* Opts::generate, run twice on the same input.  Each run has its own      *)
(* iteration order of opts.resources, and every call of                    *)
(* generate_add_to_linker its own iteration order of resource_set.         *)
(***************************************************************************)
\* The implementations the resources may be configured with.
Implementations == [r1 |-> "MyR1", r2 |-> "MyR2"]

\* The sub-maps of a map.
SubMaps(m) == {[k \in D |-> m[k]] : D \in SUBSET DOMAIN m}

\* The configurations of a run.
GenOpts ==
  {[ownership |-> o, async_ |-> FALSE, only_interfaces |-> FALSE,
    trappable_error_type |-> te, with |-> w, resources |-> r] :
     o \in Ownership,
     te \in {<<>>, <<TrappableError("my-error", None, "Error")>>},
     w \in SubMaps([k \in {"ns:pk/ia"} |-> "other::ia"]),
     r \in SubMaps(Implementations)}

Info(owned, borrowed, has_list, error) ==
  [owned |-> owned, borrowed |-> borrowed, has_list |-> has_list, error |-> error]

\* What Types::analyze may have found: foo and my-error hold a string; they
\* are used as results only, or as parameters of exports as well, or
\* (my-error) as a parameter of an export only.
AnalysedInfos ==
  {[t \in TypeIds |->
      CASE t = "foo" -> Info(TRUE, both, TRUE, FALSE)
        [] t = "my_error" -> err
        [] t \in {"foo_param", "r1", "r2"} -> Info(TRUE, FALSE, FALSE, FALSE)
        [] OTHER -> Unused] :
     both \in BOOLEAN,
     err \in {Info(TRUE, FALSE, TRUE, TRUE), Info(TRUE, TRUE, TRUE, TRUE),
              Info(FALSE, TRUE, TRUE, FALSE)}}

\* The worlds: what they import and what they export, in order.
Worlds ==
  {[imports |-> i, exports |-> e] :
     i \in {<<>>, <<Item("Interface", "ia")>>, <<Item("Interface", "ib")>>,
            <<Item("Function", "wf")>>,
            <<Item("Interface", "ia"), Item("Interface", "ib")>>,
            <<Item("Interface", "ib"), Item("Function", "wf"), Item("Interface", "ia")>>},
     e \in {<<>>, <<Item("Interface", "ia")>>,
            <<Item("Function", "wg"), Item("Interface", "ia")>>}}

Init ==
  /\ opts \in GenOpts
  /\ infos \in AnalysedInfos
  /\ world \in Worlds
  /\ pc = 1
  /\ runs \in {<<NewWasmtime(order1), NewWasmtime(order2)>> :
                 order1 \in Orders(DOMAIN opts.resources),
                 order2 \in Orders(DOMAIN opts.resources)}
  /\ ty = None /\ mode = Owned /\ reps = Done(<<>>) /\ lt = None
  /\ defs = Done(<<>>) /\ printed = None /\ shown = None /\ called = {}
  /\ call = NoCall
  /\ exec = NoExec
  /\ naming = NoNaming
  /\ graphs = NoTable

Items == world.imports \o world.exports

\* The resource_set of the call of generate_add_to_linker an item leads to.
ItemResourceSet(item) == IF item.kind = "Interface" THEN ResourceSet(item.id) ELSE {}

\* One step of a run; a run that has panicked is over.
Running(g, next) == IF g.status = "running" THEN next ELSE g

\* generate: self.import(resolve, name, import), in both runs.
Import ==
  /\ pc >= 1 /\ pc <= Len(world.imports)
  /\ \E orders \in [1..2 -> Orders(ItemResourceSet(Items[pc]))] :
       runs' = [r \in 1..2 |->
                  Running(runs[r], import(opts, infos, runs[r], Items[pc], orders[r]))]
  /\ pc' = pc + 1
  /\ UNCHANGED <<opts, infos, world>>
  /\ UNCHANGED typeVars
  /\ UNCHANGED <<exec, call>>
  /\ UNCHANGED auxVars

\* generate: self.export(resolve, name, export), in both runs.
Export ==
  /\ pc > Len(world.imports) /\ pc <= Len(Items)
  /\ runs' = [r \in 1..2 |-> Running(runs[r], export(opts, infos, runs[r], Items[pc]))]
  /\ pc' = pc + 1
  /\ UNCHANGED <<opts, infos, world>>
  /\ UNCHANGED typeVars
  /\ UNCHANGED <<exec, call>>
  /\ UNCHANGED auxVars

\* generate: self.finish(resolve, id), in both runs.
Finish ==
  /\ pc >= 1 /\ pc = Len(Items) + 1
  /\ runs' = [r \in 1..2 |-> Running(runs[r], finish(opts, runs[r]))]
  /\ pc' = pc + 1
  /\ UNCHANGED <<opts, infos, world>>
  /\ UNCHANGED typeVars
  /\ UNCHANGED <<exec, call>>
  /\ UNCHANGED auxVars

Next == Import \/ Export \/ Finish

Spec == Init /\ [][Next]_vars

(***************************************************************************)
(* The generator on worlds with more imports and exports, followed by one  *)
(* call of the combined add_to_linker of the text the first run returned.  *)
(***************************************************************************)
LinkOpts ==
  {o \in GenOpts : o.ownership = Owning /\ o.trappable_error_type = <<>>}

\* foo and my-error hold a string and are used as results.
LinkInfos ==
  [t \in TypeIds |->
     CASE t \in {"foo", "my_error"} -> Info(TRUE, FALSE, TRUE, t = "my_error")
       [] t \in {"foo_param", "r1", "r2"} -> Info(TRUE, FALSE, FALSE, FALSE)
       [] OTHER -> Unused]

LinkWorlds ==
  {[imports |-> i, exports |-> e] :
     i \in {<<>>, <<Item("Interface", "ia")>>, <<Item("Interface", "ib")>>,
            <<Item("Function", "wf")>>,
            <<Item("Interface", "ia"), Item("Interface", "ix")>>,
            <<Item("Interface", "ib"), Item("Function", "wf"), Item("Interface", "ia")>>},
     e \in {<<>>, <<Item("Interface", "ia")>>, <<Item("Function", "wg")>>,
            <<Item("Interface", "ia"), Item("Function", "interface0")>>}}

InitLink ==
  /\ opts \in LinkOpts
  /\ infos = LinkInfos
  /\ world \in LinkWorlds
  /\ pc = 1
  /\ runs \in {<<NewWasmtime(order), NewWasmtime(order)>> :
                 order \in Orders(DOMAIN opts.resources)}
  /\ ty = None /\ mode = Owned /\ reps = Done(<<>>) /\ lt = None
  /\ defs = Done(<<>>) /\ printed = None /\ shown = None /\ called = {}
  /\ call = NoCall
  /\ exec = NoExec
  /\ naming = NoNaming
  /\ graphs = NoTable

\* The embedder calls a function of the returned text.
Started(fn, prog) ==
  /\ prog # <<>>
  /\ exec' = [phase |-> "running", fn |-> fn, prog |-> prog, log |-> <<>>]

StartLink ==
  /\ pc = Len(Items) + 2
  /\ runs[1].status = "done"
  /\ exec.phase = "idle"
  /\ Started("add_to_linker", LinkProgram(runs[1].src))
  /\ UNCHANGED <<opts, infos, world, pc, runs, call>>
  /\ UNCHANGED auxVars
  /\ UNCHANGED typeVars

\* The embedder calls an export: a call_<name> function of the world or of
\* an export struct, or a function of a resource wrapper.
StartExportCall ==
  /\ pc = Len(Items) + 2
  /\ runs[1].status = "done"
  /\ exec.phase = "idle"
  /\ \E tok \in Range(ExportCalls(runs[1].src)) : Started(tok.name, ExportSteps(tok))
  /\ UNCHANGED <<opts, infos, world, pc, runs, call>>
  /\ UNCHANGED auxVars
  /\ UNCHANGED typeVars

\* The next statement of the execution: a registration succeeds or the
\* linker refuses it, an invoke or a post-return succeeds or traps; the
\* statements without `?` cannot fail.
Register ==
  /\ exec.phase = "running"
  /\ \E ok \in (IF Fallible(exec.prog[Len(exec.log) + 1]) THEN BOOLEAN ELSE {TRUE}) :
       exec' = Try(exec, ok)
  /\ UNCHANGED <<opts, infos, world, pc, runs, call>>
  /\ UNCHANGED auxVars
  /\ UNCHANGED typeVars

NextLink == Import \/ Export \/ Finish \/ StartLink \/ StartExportCall \/ Register

SpecLink == InitLink /\ [][NextLink]_vars

(***************************************************************************)
(* One call of an imported function of interface ia through the closure    *)
(* generate_guest_import_closure emitted for it.                           *)
(***************************************************************************)
\* The largest payload of a value or of an error.
MaxValue == 1

\* An error type of the host that is not the schema error type.
OtherError == "std::io::Error"

\* What the closure returns for what the host returned (`r`), by the form of
\* its last expression.  `abi` is the type the error wrapper downcasts to.
Dispatch(ret, abi, r) ==
  CASE ret = "downcast" ->
         \* match r { Ok(a) => Ok((Ok(a),)),
         \*           Err(e) => match e.downcast() {
         \*             Ok(api_error) => Ok((Err(api_error),)),
         \*             Err(anyhow_error) => Err(anyhow_error) } }
         IF r.tag = "Ok" THEN Delivered("Ok", r.val)
         ELSE IF r.ety = abi THEN Delivered("Err", r.val)
         ELSE Trap
    [] ret = "Ok((r?,))" -> IF r.tag = "Ok" THEN Delivered("Ok", r.val) ELSE Trap
    [] ret = "Ok((r,))" -> Delivered(r.tag, r.val)
    [] ret = "r" -> IF r.tag = "Ok" THEN Delivered("Ok", r.val) ELSE Trap

\* The functions the world imports directly, outside any interface.
WorldFunctions == {"wf", "wg", "interface0", "wfail"}

\* The owner the generator passes along with a function: TypeOwner::None for
\* a function of the world, the interface for a function of ia.
OwnerOf(f) == IF f \in WorldFunctions THEN None ELSE "ia"

\* The generator state the closures of an owner are emitted in.
CallCx(owner) ==
  Cx(opts, infos, [NewWasmtime(<<>>) EXCEPT !.interface_names = PlainNames], owner, FALSE)

\* The error type a trappable function downcasts to: the abi type of its
\* error wrapper.
AbiOf(owner, func) ==
  LET wrappers == SelectSeq(generate_trappable_error_types(CallCx(owner), owner).v,
                            LAMBDA w : w.name = special_case_trappable_error(
                                                  CallCx(owner), owner, func.results))
  IN IF wrappers = <<>> THEN None ELSE wrappers[1].abi

\* The closure emitted for a function, or the panic of its generation.
Closure(f) ==
  generate_add_function_to_linker(CallCx(OwnerOf(f)), OwnerOf(f), Functions[f],
                                  IF OwnerOf(f) = None THEN "linker" ELSE "inst")

\* The call, once the emitted closure is registered with the linker.
Linked(f) ==
  [phase |-> "linked", func |-> f, panic |-> None,
   sig |-> generate_function_trait_sig(CallCx(OwnerOf(f)), OwnerOf(f), Functions[f]).ret,
   trappable |-> special_case_trappable_error(CallCx(OwnerOf(f)), OwnerOf(f),
                                              Functions[f].results) # None,
   ret |-> Closure(f).v[1].ret,
   abi |-> AbiOf(OwnerOf(f), Functions[f]),
   steps |-> Closure(f).v[1].steps,
   awaits |-> Closure(f).v[1].awaits,
   suspended |-> <<>>,
   propagates |-> Closure(f).v[1].propagates,
   registers |-> Closure(f).v[1].registers,
   table |-> 0,
   host |-> NoReturn, guest |-> NoOutcome]

\* The generation of the closure panicked: there is nothing to link.
Unlinked(f) == [NoCall EXCEPT !.phase = "aborted", !.func = f, !.panic = Closure(f).v[1]]

\* The implementations of the resources, the same with an entry under the
\* key the closure of the static function make looks up, and the
\* implementation of r2 alone.
CallResources ==
  {Implementations,
   [k \in {"r1", "r2", "]r1.make"} |-> IF k = "r2" THEN "MyR2" ELSE "MyR1"],
   [k \in {"r2"} |-> "MyR2"]}

\* The configurations of the closures: synchronous or async.
CallOpts ==
  {[o EXCEPT !.async_ = a, !.resources = r] :
     o \in {g \in GenOpts : g.with = <<>> /\ g.resources = Implementations},
     a \in BOOLEAN, r \in CallResources}

\* The functions of ia, a static function of its resource r1, and a function
\* of the world that returns the error of ia.
CallFunctions == Range(Interfaces["ia"].functions) \cup {"make", "wfail"}

InitCall ==
  /\ opts \in CallOpts
  /\ infos \in AnalysedInfos
  /\ call \in {IF Closure(f).ok THEN Linked(f) ELSE Unlinked(f) : f \in CallFunctions}
  /\ ty = None /\ mode = Owned /\ reps = Done(<<>>) /\ lt = None
  /\ defs = Done(<<>>) /\ printed = None /\ shown = None /\ called = {}
  /\ world = [imports |-> <<>>, exports |-> <<>>]
  /\ pc = 0
  /\ runs = <<NewWasmtime(<<>>), NewWasmtime(<<>>)>>
  /\ exec = NoExec
  /\ naming = NoNaming
  /\ graphs = NoTable

\* The guest calls the import: the closure receives the arguments.
GuestCalls ==
  /\ call.phase = "linked"
  /\ call' = [call EXCEPT !.phase = "called"]
  /\ UNCHANGED <<opts, infos, exec>>
  /\ UNCHANGED auxVars
  /\ UNCHANGED typeVars
  /\ UNCHANGED genVars

\* The closure makes its call, suspending on it if the statement ends in
\* `.await`, and the host implementation returns: a value, the schema
\* error, or another error.
HostReturns ==
  /\ call.phase = "called"
  /\ \E val \in 0..MaxValue :
       \E r \in {HostOk(val), HostErr(OtherError, val)}
                \cup (IF call.abi = None THEN {} ELSE {HostErr(call.abi, val)}) :
         call' = [call EXCEPT !.phase = "returned", !.host = r,
                              !.suspended = @ \o SelectSeq(call.steps,
                                                LAMBDA st : st \in Range(call.awaits))]
  /\ UNCHANGED <<opts, infos, exec>>
  /\ UNCHANGED auxVars
  /\ UNCHANGED typeVars
  /\ UNCHANGED genVars

\* The rest of the closure runs: a call statement ending in `?` returns the
\* host's error at once; otherwise a constructor registers what the call
\* returned with new_resource, and the last expression gives what the
\* runtime delivers to the guest, or the trap.
GlueReturns ==
  /\ call.phase = "returned"
  /\ call' = IF call.propagates /\ call.host.tag = "Err"
             THEN [call EXCEPT !.phase = "done", !.guest = Trap]
             ELSE IF call.registers
             THEN [call EXCEPT !.phase = "done", !.table = @ + 1,
                               !.guest = Dispatch(call.ret, call.abi, HostOk(call.host.val))]
             ELSE [call EXCEPT !.phase = "done",
                               !.guest = Dispatch(call.ret, call.abi, call.host)]
  /\ UNCHANGED <<opts, infos, exec>>
  /\ UNCHANGED auxVars
  /\ UNCHANGED typeVars
  /\ UNCHANGED genVars

NextCall == GuestCalls \/ HostReturns \/ GlueReturns

SpecCall == InitCall /\ [][NextCall]_vars

(***************************************************************************)
(* One call of union_case_names: the union's cases are drawn from the      *)
(* sequences of up to MaxCases case types, and the loop names them in      *)
(* order.                                                                  *)
(***************************************************************************)
MaxCases == 3

\* The types a case of the union may have: primitives, named types and
\* anonymous types.
CaseTypes == {"u32", "string", "u320", "count", "list_str", "res_err"}

Unions == UNION {[1..n -> CaseTypes] : n \in 0..MaxCases}

InitUnion ==
  /\ naming \in {StartNaming(cases) : cases \in Unions}
  /\ opts = DefaultOpts(Owning)
  /\ infos = [t \in TypeIds |-> Unused]
  /\ ty = None /\ mode = Owned /\ reps = Done(<<>>) /\ lt = None
  /\ defs = Done(<<>>) /\ printed = None /\ shown = None /\ called = {}
  /\ world = [imports |-> <<>>, exports |-> <<>>]
  /\ pc = 0
  /\ runs = <<NewWasmtime(<<>>), NewWasmtime(<<>>)>>
  /\ exec = NoExec
  /\ call = NoCall
  /\ graphs = NoTable

\* The loop of union_case_names takes its next case.
NameCase ==
  /\ naming.at < Len(naming.cases)
  /\ naming' = NameNextCase(naming)
  /\ UNCHANGED <<opts, infos, exec, call, graphs>>
  /\ UNCHANGED typeVars
  /\ UNCHANGED genVars

NextUnion == NameCase

SpecUnion == InitUnion /\ [][NextUnion]_vars

(***************************************************************************)
(* The generator on worlds whose interfaces come from several packages:    *)
(* the interfaces of a world are drawn from the sequences without          *)
(* repetition of up to MaxItems interfaces, inline ones and ones of four   *)
(* packages, two of which differ in their version only.                    *)
(***************************************************************************)
MaxItems == 3

ModuleInterfaces == {"ia", "ib", "ja", "jv", "jq", "jo"}

\* The sequences of up to n interfaces of a set, none twice, as world items.
InterfaceItems(S, n) ==
  {[i \in DOMAIN ids |-> Item("Interface", ids[i])] :
     ids \in {f \in UNION {[1..k -> S] : k \in 0..n} :
                \A i, j \in DOMAIN f : i # j => f[i] # f[j]}}

ModuleWorlds ==
  {[imports |-> i, exports |-> e] :
     i \in InterfaceItems(ModuleInterfaces, MaxItems),
     e \in InterfaceItems({"ja", "jv"}, 2)}

ModuleOpts ==
  {o \in GenOpts : /\ o.trappable_error_type = <<>>
                   /\ DOMAIN o.with = {}
                   /\ o.resources = Implementations}

InitModules ==
  /\ opts \in ModuleOpts
  /\ infos = LinkInfos
  /\ world \in ModuleWorlds
  /\ pc = 1
  /\ runs \in {<<NewWasmtime(order), NewWasmtime(order)>> :
                 order \in Orders(DOMAIN opts.resources)}
  /\ ty = None /\ mode = Owned /\ reps = Done(<<>>) /\ lt = None
  /\ defs = Done(<<>>) /\ printed = None /\ shown = None /\ called = {}
  /\ call = NoCall
  /\ exec = NoExec
  /\ naming = NoNaming
  /\ graphs = NoTable

NextModules == Import \/ Export \/ Finish

SpecModules == InitModules /\ [][NextModules]_vars

(***************************************************************************)
(* One Table: values are inserted and keys are looked up.  The build       *)
(* either checks arithmetic overflow (the increment of next_key then       *)
(* panics at the limit) or lets it wrap.                                   *)
(***************************************************************************)
TableValues == {"g1", "g2"}

\* The number of inserts made on the table: enough to pass the key limit.
MaxInserts == KeyLimit + 2

InitTable ==
  /\ graphs \in {[NoTable EXCEPT !.overflow_checks = c] : c \in BOOLEAN}
  /\ opts = DefaultOpts(Owning)
  /\ infos = [t \in TypeIds |-> Unused]
  /\ ty = None /\ mode = Owned /\ reps = Done(<<>>) /\ lt = None
  /\ defs = Done(<<>>) /\ printed = None /\ shown = None /\ called = {}
  /\ world = [imports |-> <<>>, exports |-> <<>>]
  /\ pc = 0
  /\ runs = <<NewWasmtime(<<>>), NewWasmtime(<<>>)>>
  /\ exec = NoExec
  /\ call = NoCall
  /\ naming = NoNaming

\* What an insert that returned leaves: the table, the key it returned, and
\* no get made on the table as it now is.
Inserted(t, value, r) ==
  [r.table EXCEPT !.inserted = Append(@, <<r.key, value>>), !.got = <<>>]

\* table.insert(value): the increment panics when it overflows in a build
\* with overflow checks, before anything is inserted.
TableInsert ==
  /\ ~graphs.panicked
  /\ Len(graphs.inserted) < MaxInserts
  /\ \E value \in TableValues :
       graphs' = IF Overflows(graphs) /\ graphs.overflow_checks
                 THEN [graphs EXCEPT !.panicked = TRUE]
                 ELSE Inserted(graphs, value, insert(graphs, value))
  /\ UNCHANGED <<opts, infos, exec, call, naming>>
  /\ UNCHANGED typeVars
  /\ UNCHANGED genVars

\* table.get(key)
TableGet ==
  /\ ~graphs.panicked
  /\ \E key \in 0..(KeyLimit - 1) :
       graphs' = [graphs EXCEPT !.got = <<key, get(graphs, key)>>]
  /\ UNCHANGED <<opts, infos, exec, call, naming>>
  /\ UNCHANGED typeVars
  /\ UNCHANGED genVars

NextTable == TableInsert \/ TableGet

SpecTable == InitTable /\ [][NextTable]_vars

(***************************************************************************)
(* The resolver: properties of modes_of and lifetime_for                   *)
(***************************************************************************)
AllCalled == called = {"modes_of", "lifetime_for", "define_type"}

\* The base name of a type: its WIT name in upper camel case.
BaseName(id) == to_upper_camel_case(TypeDefs[id].name)

\* The lifetime each representation returned by modes_of is declared with.
RepLifetimes == {lifetime_for(opts.ownership, infos[ty], reps.v[i].mode) : i \in 1..Len(reps.v)}

\* The lifetime each definition emitted by define_type is declared with.
DefLifetimes == {d.lt : d \in Range(Tokens(defs.v, "def"))}

\* C1: for a type without a list, lifetime_for returns no lifetime for every
\* mode and every ownership policy, so no representation returned by modes_of
\* and no definition emitted for it is declared with a lifetime parameter.
C1_NoLifetimeWithoutList ==
  (ty # None /\ ~infos[ty].has_list) =>
    /\ Called("lifetime_for") => lt = None
    /\ Called("modes_of") => reps.ok /\ RepLifetimes \subseteq {None}
    /\ (Called("define_type") /\ defs.ok) => DefLifetimes \subseteq {None}

\* A borrowed-only record without a list, asked about a borrowed mode under a
\* borrowing policy, resolved and emitted.
C1_Witness ==
  /\ ty = "foo" /\ AllCalled
  /\ opts.ownership = BorrowingDup
  /\ infos[ty] = [owned |-> FALSE, borrowed |-> TRUE, has_list |-> FALSE, error |-> FALSE]
  /\ mode = AllBorrowed("'a")
  /\ lt = None
  /\ Len(reps.v) = 1 /\ reps.v[1].mode = AllBorrowed("'a")
  /\ defs.ok /\ Len(Tokens(defs.v, "def")) = 1

\* C2: under Owning, for every TypeInfo, lifetime_for returns no lifetime for
\* every mode, modes_of returns at most one representation, its mode is Owned
\* and its name is the base name without a Param or Result suffix.
C2_OwningSingleOwned ==
  (ty # None /\ opts.ownership = Owning) =>
    /\ Called("lifetime_for") => lt = None
    /\ Called("modes_of") =>
         /\ reps.ok
         /\ Len(reps.v) <= 1
         /\ \A i \in 1..Len(reps.v) :
              reps.v[i] = [name |-> BaseName(ty), mode |-> Owned]

\* A type used both ways that contains a list, resolved under Owning.
C2_Witness ==
  /\ ty = "foo" /\ AllCalled
  /\ opts.ownership = Owning
  /\ infos[ty] = [owned |-> TRUE, borrowed |-> TRUE, has_list |-> TRUE, error |-> FALSE]
  /\ mode = AllBorrowed("'a")
  /\ reps.v = <<[name |-> "Foo", mode |-> Owned]>>

\* The types C4 is about: used both ways and containing a list, under
\* Borrowing without duplication.
BothWaysNoDup ==
  /\ ty # None
  /\ opts.ownership = BorrowingNoDup
  /\ infos[ty].owned /\ infos[ty].borrowed /\ infos[ty].has_list

\* C4 as stated: under Borrowing without duplication, a type used both ways
\* that contains a list gets exactly one representation from modes_of, the
\* borrowed one, declared with a lifetime.
C4_SingleBorrowedRepresentation ==
  (BothWaysNoDup /\ Called("modes_of")) =>
    /\ reps.ok /\ Len(reps.v) = 1
    /\ reps.v[1].mode.tag = "AllBorrowed"
    /\ RepLifetimes # {None}

\* C4, as the code has it: under Borrowing without duplication, a type used
\* both ways that contains a list gets exactly one representation from
\* modes_of, the owned one under the base name, declared without a lifetime;
\* lifetime_for returns no lifetime for it in every mode.
C4_SingleOwnedRepresentation ==
  BothWaysNoDup =>
    /\ Called("modes_of") =>
         /\ reps.ok
         /\ reps.v = <<[name |-> BaseName(ty), mode |-> Owned]>>
         /\ RepLifetimes = {None}
    /\ Called("lifetime_for") => lt = None
    /\ (Called("define_type") /\ defs.ok) => DefLifetimes \subseteq {None}

\* A record used both ways that contains a list, resolved and emitted under
\* Borrowing without duplication.
C4_Witness ==
  /\ BothWaysNoDup /\ AllCalled
  /\ ty = "foo"
  /\ mode = AllBorrowed("'a")
  /\ Len(reps.v) = 1
  /\ defs.ok /\ Len(Tokens(defs.v, "def")) = 1

(***************************************************************************)
(* The type emitter: properties of define_type                             *)
(***************************************************************************)
\* The tokens of out with tag `tag` that name `name`.
Naming(out, tag, name) == SelectSeq(Tokens(out, tag), LAMBDA tok : tok.name = name)

\* The (name, mode) pairs of the definitions define_type emitted.
DefPairs == [i \in 1..Len(Tokens(defs.v, "def")) |->
               [name |-> Tokens(defs.v, "def")[i].name,
                mode |-> Tokens(defs.v, "def")[i].mode]]

\* C7: every definition define_type emits for a non-resource type, one per
\* emitted name, comes with exactly one size assertion and one alignment
\* assertion that name the emitted identifier and carry the size and the
\* alignment of the type id; there are no more assertions than definitions.
C7_EveryDefinitionAsserted ==
  (ty # None /\ TypeDefs[ty].kind # "resource" /\ Called("define_type") /\ defs.ok) =>
    /\ \A d \in Range(Tokens(defs.v, "def")) :
         /\ d.id = ty
         /\ Naming(defs.v, "def", d.name) = <<d>>
         /\ Naming(defs.v, "assert_size", d.name)
              = <<[t |-> "assert_size", name |-> d.name, n |-> SizeOf(ty)]>>
         /\ Naming(defs.v, "assert_align", d.name)
              = <<[t |-> "assert_align", name |-> d.name, n |-> AlignOf(ty)]>>
    /\ Len(Tokens(defs.v, "assert_size")) = Len(DefPairs)
    /\ Len(Tokens(defs.v, "assert_align")) = Len(DefPairs)

\* A record emitted twice, as FooResult and as FooParam, each with its two
\* assertions.
C7_Witness ==
  /\ ty = "foo" /\ Called("define_type") /\ defs.ok
  /\ opts.ownership = BorrowingDup
  /\ DefPairs = <<[name |-> "FooResult", mode |-> Owned],
                  [name |-> "FooParam", mode |-> AllBorrowed("'a")]>>
  /\ Len(Tokens(defs.v, "assert_size")) = 2
  /\ Len(Tokens(defs.v, "assert_align")) = 2

(***************************************************************************)
(* The generator: properties of the text a run emits                       *)
(***************************************************************************)
\* Every token of a text, the tokens inside its modules included.
RECURSIVE AllTokens(_)
AllTokens(src) ==
  Flatten([i \in 1..Len(src) |->
             IF src[i].t = "mod" THEN <<src[i]>> \o AllTokens(src[i].items) ELSE <<src[i]>>])

\* The run is over and returned its text.
Returned(r) == runs[r].status = "done"

\* The modules a run has emitted for interfaces so far: the ones it holds
\* for finish, and the ones in its text.
InterfaceModules(r) ==
  {e.module : e \in Range(runs[r].import_interfaces) \cup Range(runs[r].exports.modules)}
  \cup {m \in Range(Tokens(AllTokens(runs[r].src), "mod")) : m.name \in InterfaceIds}

\* The interfaces the world imports and the ones it exports.
Imported == {i.id : i \in {j \in Range(world.imports) : j.kind = "Interface"}}
Exported == {i.id : i \in {j \in Range(world.exports) : j.kind = "Interface"}}

\* The interfaces whose world key is remapped by the `with` option.
Remapped == {id \in Imported \cup Exported : name_world_key(id) \in DOMAIN opts.with}

\* C3: under Borrowing with duplication, a named type that is owned,
\* borrowed and holds a list gets exactly two representations from modes_of,
\* <Base>Result (Owned) and <Base>Param (AllBorrowed, with a lifetime), and
\* in the module of its interface no definition of another type bears either
\* name.
C3_DuplicateNamesDistinct ==
  opts.ownership = BorrowingDup =>
    \A m \in InterfaceModules(1) :
      \A id \in Range(Interfaces[m.name].types) :
        (infos[id].owned /\ infos[id].borrowed /\ infos[id].has_list) =>
          /\ modes_of(opts.ownership, infos[id], id)
               = Done(<<[name |-> BaseName(id) \o "Result", mode |-> Owned],
                        [name |-> BaseName(id) \o "Param", mode |-> AllBorrowed("'a")]>>)
          /\ lifetime_for(opts.ownership, infos[id], AllBorrowed("'a")) = "'a"
          /\ \A d \in Range(Tokens(m.items, "def")) :
               d.id # id => d.name \notin {BaseName(id) \o "Result", BaseName(id) \o "Param"}

\* C5: a remapped interface contributes exactly one alias binding to the
\* returned text and no module, whether the world imports it, exports it or
\* both; the run holds no module for it before it returns either.
C5_RemappedInterfaceOnlyAliased ==
  \A id \in Remapped :
    /\ \A m \in InterfaceModules(1) : m.name # id
    /\ Returned(1) =>
         /\ Len(SelectSeq(Tokens(AllTokens(runs[1].src), "use_as"),
                          LAMBDA u : u.path = opts.with[name_world_key(id)])) = 1
         /\ \A a \in Range(Tokens(AllTokens(runs[1].src), "accessor")) :
              a.name # ExportMethod(id, to_snake_case(Interfaces[id].name))

\* C6: two runs on the same graph, world and options end the same way and
\* return the same text, whatever the iteration orders of opts.resources and
\* of the resource sets.
C6_RunsAgree ==
  pc = Len(Items) + 2 =>
    /\ runs[1].status = runs[2].status
    /\ runs[1].src = runs[2].src

\* The lifetimes of the representations of a type that bear a name.
LifetimesOf(id, name) ==
  {lifetime_for(opts.ownership, infos[id], rep.mode) :
     rep \in {x \in Range(modes_of(opts.ownership, infos[id], id).v) : x.name = name}}

\* C9: an error wrapper is emitted only for a type whose wrapped
\* representation is declared without a lifetime; a mapping that names a
\* type whose representation carries one aborts the run.
C9_TrappableErrorIsStatic ==
  \A m \in InterfaceModules(1) :
    \A w \in Range(Tokens(m.items, "error_wrapper")) :
      LifetimesOf(w.id, w.abi) \subseteq {None}

\* The functions reachable from the import bindings a run emits: those of
\* the imported interfaces that are not remapped, and the imported
\* functions of the world.
ImportedFunctions ==
  UNION {IF i.kind = "Function" THEN {i.id}
         ELSE IF i.id \in Remapped THEN {}
         ELSE Range(Interfaces[i.id].functions) : i \in Range(world.imports)}

\* The names of the resources in the parameters and in the results of a
\* function.
ResourcesOf(f) ==
  {r.name : r \in UNION {Range(get_resource_from_ty(x)) :
                           x \in Range(Functions[f].params) \cup Range(Functions[f].results)}}

\* C10: a run returns only if every resource in a parameter or in a result
\* of a function reachable from the import bindings has an entry in
\* opts.resources; it aborts otherwise.
C10_MissingResourceAborts ==
  Returned(1) =>
    \A f \in ImportedFunctions : ResourcesOf(f) \subseteq DOMAIN opts.resources

(***************************************************************************)
(* The dispatch glue: properties of a call                                 *)
(***************************************************************************)
\* C8: in the glue of a trappable-error function each host outcome maps to
\* one call outcome: Ok(a) delivers ok(a); Err(e) with e the schema error
\* delivers err(e) as a successful call; Err(e) with any other error traps
\* and delivers nothing.
C8_TrappableDispatch ==
  (call.phase = "done" /\ call.trappable) =>
    /\ call.host.tag = "Ok" => call.guest = Delivered("Ok", call.host.val)
    /\ (call.host.tag = "Err" /\ call.host.ety = call.abi) =>
         call.guest = Delivered("Err", call.host.val)
    /\ (call.host.tag = "Err" /\ call.host.ety # call.abi) => call.guest = Trap

\* A trappable function whose host returned the schema error, delivered to
\* the guest as err.
C8_Witness ==
  /\ call.phase = "done" /\ call.trappable /\ call.func = "get"
  /\ call.host = HostErr(call.abi, MaxValue)
  /\ call.guest = Delivered("Err", MaxValue)

(***************************************************************************)
(* The registration glue: properties of a call of add_to_linker            *)
(***************************************************************************)
\* The statements performed so far.
Performed == Map(exec.log, LAMBDA l : l.step)

\* C11: the registrations of the combined add_to_linker run one after
\* another in the order of the text, and the first one that fails ends the
\* call with its error: nothing is registered after it and it is not tried
\* again.
C11_FirstFailureEndsLinking ==
  exec.fn = "add_to_linker" =>
    /\ exec.prog = LinkProgram(runs[1].src)
    /\ Performed = SubSeq(exec.prog, 1, Len(exec.log))
    /\ \A i \in 1..Len(exec.log) :
         ~exec.log[i].ok => (i = Len(exec.log) /\ exec.phase = "err")
    /\ exec.phase = "err" => ~exec.log[Len(exec.log)].ok
    /\ exec.phase = "ok" => Len(exec.log) = Len(exec.prog)

\* The registration of a function of the first interface has failed while
\* another interface and the root functions were still to be registered.
C11_Witness ==
  /\ exec.fn = "add_to_linker"
  /\ exec.phase = "err"
  /\ exec.log[Len(exec.log)].step.op = "func_wrap"
  /\ exec.log[Len(exec.log)].step.inst = "ib"
  /\ \E i \in Len(exec.log) + 1..Len(exec.prog) :
       exec.prog[i] = LinkStep("enter", "linker", "Self::add_root_to_linker")
  /\ \E i \in Len(exec.log) + 1..Len(exec.prog) :
       exec.prog[i] = LinkStep("enter", "linker", "ns::pk::ia::add_to_linker")

\* How many times the call has entered an emitted function.
Entered(callee) ==
  Cardinality({i \in 1..Len(exec.log) :
                 exec.log[i].step = LinkStep("enter", "linker", callee)})

\* The names the add_to_linker of an interface can be called by: through the
\* path the run named the interface by, or through its remapped path.
LinkersOf(id) ==
  {runs[1].interface_names[id].path \o "::add_to_linker"}
  \cup (IF name_world_key(id) \in DOMAIN opts.with
        THEN {opts.with[name_world_key(id)] \o "::add_to_linker"} ELSE {})

\* C12: when the combined add_to_linker returns Ok, the add_to_linker of
\* every interface the world imports has been called exactly once, and so
\* has add_root_to_linker if the world imports functions.
C12_EveryImportRegistered ==
  (exec.fn = "add_to_linker" /\ exec.phase = "ok") =>
    /\ \A id \in Imported :
         /\ \E callee \in LinkersOf(id) : Entered(callee) = 1
         /\ \A callee \in LinkersOf(id) : Entered(callee) <= 1
    /\ (\E i \in Range(world.imports) : i.kind = "Function") =>
         Entered("Self::add_root_to_linker") = 1

(***************************************************************************)
(* The export calls: properties of one call                                *)
(***************************************************************************)
\* The invokes and the post-returns performed so far, in order.
Invocations ==
  SelectSeq(exec.log, LAMBDA l : l.step.op \in {"call", "post_return"})

\* C13: an export call that returns Ok has performed exactly one invoke of
\* the reference and then exactly one post-return; no post-return runs
\* before a successful invoke, nor twice in a call.
C13_InvokeThenPostReturn ==
  exec.fn \notin {None, "add_to_linker"} =>
    /\ exec.phase = "ok" =>
         Invocations = <<[step |-> LinkStep("call", "callee", exec.fn), ok |-> TRUE],
                         [step |-> LinkStep("post_return", "callee", exec.fn), ok |-> TRUE]>>
    /\ \A i \in 1..Len(exec.log) :
         exec.log[i].step.op = "post_return" =>
           /\ \E j \in 1..(i - 1) : exec.log[j].step.op = "call" /\ exec.log[j].ok
           /\ \A j \in 1..Len(exec.log) : exec.log[j].step.op = "post_return" => j = i

\* The call of the method of a resource wrapper, and the call of an export
\* that wraps a resource argument first, have returned Ok.
C13_Witness ==
  /\ exec.phase = "ok"
  /\ exec.fn \in {"method_r1_poke", "call_link"}
  /\ Len(Invocations) = 2

\* C14: with the async option, every call through an import closure
\* suspends exactly once, on the call into the host implementation, for
\* every kind of function: the closure holds one awaited statement, its
\* call, and has not suspended before it makes that call.
C14_OneSuspensionAtHostCall ==
  (call.phase \notin {"idle", "aborted"} /\ opts.async_) =>
    /\ Len(call.steps) = 1
    /\ call.awaits = call.steps
    /\ call.phase \in {"linked", "called"} => call.suspended = <<>>
    /\ call.phase \in {"returned", "done"} => call.suspended = call.steps

\* An async call of the constructor of r1 is over.
C14_Witness ==
  /\ opts.async_
  /\ call.phase = "done"
  /\ Functions[call.func].kind = "Constructor"
  /\ call.suspended = <<"MyR1::new">>

(***************************************************************************)
(* The import side of an interface: properties of its module               *)
(***************************************************************************)
\* The modules the returned text holds for an interface.
ModulesOf(id) ==
  SelectSeq(ModulesByPath(runs[1].src),
            LAMBDA m : m.path = runs[1].interface_names[id].path)

\* The names of the methods of the Host trait of a module: the signatures
\* between `trait Host` and the add_to_linker.
HostMethods(items) ==
  LET host == CHOOSE i \in 1..Len(items) : items[i].t = "trait" /\ items[i].name = "Host"
      linker == CHOOSE i \in 1..Len(items) : items[i].t = "add_to_linker"
  IN Map(Tokens(SubSeq(items, host + 1, linker - 1), "trait_fn"), LAMBDA f : f.name)

\* C15: the module of an imported interface that is not remapped has a Host
\* trait with one method per Freestanding function and no other, and an
\* add_to_linker that registers each function of the interface once, in
\* the instance named by the world key of the interface.
C15_HostMirrorsFreestanding ==
  Returned(1) =>
    \A id \in Imported \ Remapped :
      /\ Len(ModulesOf(id)) = 1
      /\ HostMethods(ModulesOf(id)[1].items)
           = Map(SelectSeq(Interfaces[id].functions,
                           LAMBDA f : Functions[f].kind = "Freestanding"),
                 LAMBDA f : to_rust_ident(Functions[f].name))
      /\ Map(Tokens(ModulesOf(id)[1].items, "func_wrap"), LAMBDA f : f.name)
           = Map(Interfaces[id].functions, LAMBDA f : Functions[f].name)
      /\ Map(Tokens(ModulesOf(id)[1].items, "add_to_linker"), LAMBDA a : a.name)
           = <<name_world_key(id)>>
      /\ \A f \in Range(Tokens(ModulesOf(id)[1].items, "func_wrap")) : f.what = "inst"

\* The text holds the module of ia, which has functions of three kinds,
\* next to the module of an inline interface.
C15_Witness ==
  /\ Returned(1)
  /\ {"ia", "ib"} \subseteq Imported \ Remapped
  /\ HostMethods(ModulesOf("ia")[1].items) = <<"get", "link">>

\* How many drop hooks the returned text registers for a resource.
HookCount(r) ==
  Cardinality({i \in 1..Len(AllTokens(runs[1].src)) :
                 /\ AllTokens(runs[1].src)[i].t = "inst_resource"
                 /\ AllTokens(runs[1].src)[i].name = r})

\* C16: when some imported interface has a function with a resource in a
\* parameter, the returned text registers the drop hook of each entry of
\* opts.resources exactly once, however many such interfaces there are.
C16_DropHookOncePerResource ==
  (Returned(1) /\ \E id \in Imported \ Remapped : ResourceSet(id) # {}) =>
    \A r \in DOMAIN opts.resources : HookCount(r) = 1


\* The text of a list whose element text is elem, in the given mode: a
\* borrowed slice or a Vec.
ListOf(elem, m) ==
  IF m.tag = "AllBorrowed" THEN Amp(m.lt) \o "[" \o elem \o "]" ELSE "Vec<" \o elem \o ">"

\* The element type of the list ty.
Elem == TypeDefs[ty].of[1]

\* C17: for every ownership policy and every mode of the list, print_list_
\* renders the element type in Owned mode; a borrowed list of lists of
\* strings is a borrowed slice of owned vectors of owned strings.
C17_ElementsAlwaysOwned ==
  Called("print_list_") =>
    /\ printed = ListOf(print_ty_(TypeCx("Import"), Elem, Owned), mode)
    /\ (ty = "grid" /\ mode = AllBorrowed("'a")) => printed = "&'a [Vec<String>]"

\* C17, amended: under the Owning policy the element type is rendered in
\* Owned mode for every mode of the list; under a Borrowing policy it is
\* rendered in the mode of the list, so that a borrowed list of lists of
\* strings is a borrowed slice of borrowed slices of borrowed strs.
C17_ElementsOwnedWhenOwning ==
  Called("print_list_") =>
    /\ opts.ownership = Owning =>
         /\ printed = ListOf(print_ty_(TypeCx("Import"), Elem, Owned), mode)
         /\ (ty = "grid" /\ mode = AllBorrowed("'a")) => printed = "&'a [Vec<String>]"
    /\ opts.ownership # Owning =>
         /\ printed = ListOf(print_ty_(TypeCx("Import"), Elem, mode), mode)
         /\ (ty = "grid" /\ mode = AllBorrowed("'a")) => printed = "&'a [&'a [&'a str]]"

\* A list of lists of strings has been printed in a borrowed mode under the
\* Owning policy.
C17_Witness ==
  /\ Called("print_list_") /\ ty = "grid" /\ mode = AllBorrowed("'a")
  /\ opts.ownership = Owning /\ printed = "&'a [Vec<String>]"


\* Whether func returns a single result<T, E> with E, once its aliases are
\* resolved, a type named wit_name.
ReturnsErrorNamed(func, wit_name) ==
  /\ Len(func.results) = 1 /\ IsId(func.results[1])
  /\ TypeDefs[func.results[1]].kind = "result"
  /\ IsId(TypeDefs[func.results[1]].of[2])
  /\ TypeDefs[resolve_type_definition_id(TypeDefs[func.results[1]].of[2])].name = wit_name

\* The signature and the closure of the called function return the error
\* type rust_name.
ErrorReplacedBy(rust_name) ==
  /\ call.trappable /\ call.ret = "downcast"
  /\ call.sig = "Result<" \o print_optional_ty_(CallCx(OwnerOf(call.func)),
                                TypeDefs[Functions[call.func].results[1]].of[1], Owned)
                          \o "," \o rust_name \o ">"

\* C18: with a mapping whose wit_owner is None, every function, of an
\* interface or of the world, that returns a single result<T, E> with E a
\* type named wit_name, directly or through aliases, has its error replaced
\* by rust_name.
C18_UnownedMappingAppliesEverywhere ==
  \A i \in DOMAIN opts.trappable_error_type :
    (/\ call.phase # "idle"
     /\ opts.trappable_error_type[i].wit_owner = None
     /\ ReturnsErrorNamed(Functions[call.func], opts.trappable_error_type[i].wit_name))
    => ErrorReplacedBy(opts.trappable_error_type[i].rust_name)


\* The number of exports of the world that export() has been called on.
ExportsSeen ==
  IF pc - 1 <= Len(world.imports) THEN 0
  ELSE IF pc - 1 >= Len(Items) THEN Len(world.exports)
  ELSE pc - 1 - Len(world.imports)

\* The field name of the i-th export: the snake-cased name of a function,
\* `interface<N>` with N the number of earlier exports for an interface.
FieldOf(i) ==
  IF world.exports[i].kind = "Function" THEN to_snake_case(Functions[world.exports[i].id].name)
  ELSE "interface" \o ToString(i - 1)

\* Two of the exports seen so far have the same field name.
FieldClash == \E i, j \in 1..ExportsSeen : i < j /\ FieldOf(i) = FieldOf(j)

OfResource == call.func # None /\ Functions[call.func].kind \in {"Static", "Constructor"}

\* The name the closure calls through the implementation impl.
CalledThrough(impl) ==
  impl \o "::" \o (IF Functions[call.func].kind = "Constructor" THEN "new"
                   ELSE to_snake_case(Functions[call.func].name))

\* C21: the closure of an imported static function or constructor of a
\* resource R calls through the implementation configured under the name R,
\* and its generation aborts only when R has no entry.
C21_ImplementationLookedUpByResourceName ==
  OfResource =>
    /\ call.phase = "aborted" <=> Functions[call.func].resource \notin DOMAIN opts.resources
    /\ call.phase # "aborted" =>
         call.steps = <<CalledThrough(opts.resources[Functions[call.func].resource])>>


\* The wrapper struct emitted for the exported resource ty, and the functions
\* of its impl.
RepStructs == Tokens(defs.v, "rep_struct")
RepFns == Tokens(defs.v, "rep_fn")

\* The snake-cased names of the methods, static functions and constructors
\* of a resource.
FunctionsOfResource(id) ==
  {to_snake_case(Functions[f].name) :
     f \in {g \in Range(Interfaces[TypeDefs[id].owner].functions) : IsResourceFn(g, id)}}

\* C22: for an exported resource R, the references declared as fields of
\* Rep<R> are the ones its constructor resolves and stores, and they are
\* exactly the methods, static functions and constructors of R, also when the
\* interface declares several resources.
C22_WrapperFieldsAreResolved ==
  (ty # None /\ TypeDefs[ty].kind = "resource" /\ Called("define_type") /\ defs.ok) =>
    \A i \in DOMAIN RepStructs :
      /\ Range(RepStructs[i].fields) = FunctionsOfResource(ty)
      /\ \A j \in DOMAIN RepFns :
           RepFns[j].kind = "Constructor" =>
             Range(RepFns[j].fields) = Range(RepStructs[i].fields)


\* `arg0, ..., arg<n-1>`
FirstArgs(n) == [i \in 1..n |-> "arg" \o ToString(i - 1)]

\* C23: in every method and static function of a resource wrapper, the
\* arguments passed to the callee are as many as the parameters of the typed
\* reference the callee was built with, in their order: the handle and the
\* remaining parameters for a method, all the parameters for a static
\* function.
C23_WrapperArgumentsMatchCallee ==
  (ty # None /\ TypeDefs[ty].kind = "resource" /\ Called("define_type") /\ defs.ok) =>
    \A j \in DOMAIN RepFns :
      /\ RepFns[j].kind = "Method" =>
           /\ Len(RepFns[j].args) = Len(RepFns[j].params)
           /\ RepFns[j].args = <<"self.to_handle()">> \o FirstArgs(Len(RepFns[j].params) - 1)
      /\ RepFns[j].kind = "Static" =>
           /\ Len(RepFns[j].args) = Len(RepFns[j].params)
           /\ RepFns[j].args = FirstArgs(Len(RepFns[j].params))


\* Whether the i-th parameter of an export call is declared with a generic
\* resource parameter: the callee then takes a Resource of that parameter.
IsGeneric(tok, i) == tok.args[i] = "wasmtime::component::Resource<" \o tok.params[i] \o ">"

\* Whether the export call registers its i-th argument in the handle table.
Registers(tok, i) ==
  \E k \in DOMAIN tok.steps : tok.steps[k] = "new_resource(arg" \o ToString(i - 1) \o ")"

\* C24: in every export call of the returned text, an argument is registered
\* with new_resource exactly when its parameter is declared with a generic
\* resource parameter, there is one generic parameter per distinct such
\* resource, and the other arguments are passed as they are.
C24_OnlyGenericArgumentsRegistered ==
  Returned(1) =>
    \A tok \in Range(ExportCalls(runs[1].src)) :
      /\ \A i \in DOMAIN tok.params : Registers(tok, i) <=> IsGeneric(tok, i)
      /\ Len(tok.declared)
           = Cardinality({tok.params[i] : i \in {j \in DOMAIN tok.params : IsGeneric(tok, j)}})


\* C25: when the host's constructor of a resource returns an error, the
\* closure aborts the call, nothing having been registered in the handle
\* table, with the async option as without it.
C25_FailedConstructorRegistersNothing ==
  (/\ call.phase = "done" /\ Functions[call.func].kind = "Constructor"
   /\ call.host.tag = "Err")
  => (call.guest = Trap /\ call.table = 0)


\* Whether a type holds a list or a string: what the analysis records as
\* has_list.
RECURSIVE HoldsList(_)
HoldsList(t) ==
  IF t = None THEN FALSE
  ELSE IF ~IsId(t) THEN t = "string"
  ELSE TypeDefs[t].kind = "list"
       \/ \E k \in DOMAIN TypeDefs[t].of : HoldsList(TypeDefs[t].of[k])

\* The `&` and the lifetime argument a reference in the asked mode may
\* carry.
RefBorrows == IF mode.tag = "AllBorrowed" THEN {"", Amp(mode.lt)} ELSE {""}
RefGenerics == IF mode.tag = "AllBorrowed" THEN {"", print_generics_(mode.lt)} ELSE {""}

\* C26: for a used type, the identifier print_tyid_ prints for a reference is
\* one of the names modes_of returns, and the reference carries a lifetime
\* argument exactly when the definition emitted under that name is declared
\* with a lifetime parameter, for every policy and every mode.
C26_ReferenceMatchesDefinition ==
  (/\ ty # None /\ (infos[ty].owned \/ infos[ty].borrowed)
   /\ infos[ty].has_list = HoldsList(ty)
   /\ {"print_tyid_", "modes_of", "define_type"} \subseteq called
   /\ reps.ok /\ defs.ok)
  => \E i \in DOMAIN reps.v : \E amp \in RefBorrows : \E generics \in RefGenerics :
       /\ shown = amp \o reps.v[i].name \o generics
       /\ \A d \in Range(Tokens(defs.v, "def")) :
            d.name = reps.v[i].name => (generics # "" <=> d.lt # None)


\* C27: the assertion of modes_of never fails: for every TypeInfo and every
\* policy modes_of returns, and when the first representation is borrowed
\* uses_two_names is false and there is no second, Param representation.
C27_AssertionNeverFails ==
  (ty # None /\ Called("modes_of")) =>
    /\ reps.ok
    /\ (reps.v # <<>> /\ reps.v[1].mode.tag = "AllBorrowed") =>
         /\ ~uses_two_names(opts.ownership, infos[ty])
         /\ Len(reps.v) = 1

\* A type with a list that is only borrowed, under the duplicating policy:
\* modes_of chose the borrowed mode for its only representation.
C27_Witness ==
  /\ ty = "foo" /\ Called("modes_of")
  /\ opts.ownership = BorrowingDup
  /\ infos[ty] = [owned |-> FALSE, borrowed |-> TRUE, has_list |-> TRUE, error |-> FALSE]
  /\ reps = Done(<<[name |-> "Foo", mode |-> AllBorrowed("'a")]>>)


\* The type whose name the loop wrote for case k, and how many cases before
\* k (or in all) had the same name written.
Produced(k) == write_name(naming.cases[k])
Before(k) == Cardinality({j \in 1..(k - 1) : Produced(j) = Produced(k)})
Times(k) == Cardinality({j \in 1..Len(naming.cases) : Produced(j) = Produced(k)})
Named == naming.at = Len(naming.cases) /\ naming.at > 0

\* C28 (first part): a name produced once is left unsuffixed, and the
\* occurrences of a name produced n >= 2 times get the suffixes 0 .. n-1 in
\* order.
C28_SuffixesInOrder ==
  Named =>
    \A k \in 1..Len(naming.cases) :
      naming.case_names[k] = IF Times(k) = 1 THEN Produced(k)
                             ELSE Produced(k) \o ToString(Before(k))

\* A union with a name produced three times has been named.
C28_SuffixesWitness ==
  Named /\ \E k \in 1..Len(naming.cases) : Times(k) = 3

\* C28: the case names returned by union_case_names are pairwise distinct:
\* names get their suffixes in order, and no suffixed name collides with the
\* name of another case.
C28_CaseNamesDistinct ==
  Named =>
    /\ C28_SuffixesInOrder
    /\ \A i, j \in 1..Len(naming.cases) :
         i # j => naming.case_names[i] # naming.case_names[j]


\* The packages of the interfaces a side of the world refers to by their
\* package, and the interfaces of a package among them.
PackagesOn(ids) == {Interfaces[i].package : i \in {j \in ids : Interfaces[j].key = "Interface"}}
InterfacesOn(ids, pkg) == {i \in ids : Interfaces[i].key = "Interface" /\ Interfaces[i].package = pkg}

\* The modules of a text with a given name.
ModulesNamed(src, name) == SelectSeq(src, LAMBDA tok : tok.t = "mod" /\ tok.name = name)

\* A text has one module per namespace and in it one module per package,
\* which holds the modules of the interfaces of the package once each.
GroupedByPackage(src, ids) ==
  \A pkg \in PackagesOn(ids) :
    /\ Len(ModulesNamed(src, to_snake_case(pkg.namespace))) = 1
    /\ LET inside == ModulesNamed(src, to_snake_case(pkg.namespace))[1].items
       IN /\ Len(inside) = Cardinality({q.name : q \in {n \in PackagesOn(ids) :
                                                          n.namespace = pkg.namespace}})
          /\ Len(ModulesNamed(inside, to_snake_case(pkg.name))) = 1
          /\ LET modules == ModulesNamed(inside, to_snake_case(pkg.name))[1].items
             IN /\ Len(modules) = Cardinality(InterfacesOn(ids, pkg))
                /\ \A i \in InterfacesOn(ids, pkg) :
                     Len(ModulesNamed(modules, to_snake_case(Interfaces[i].name))) = 1

\* The world's interfaces have been generated and finish has been called.
Generated == pc = Len(Items) + 2

\* Two packages of a side of the world differ in their version only.
SameButVersion(ids) ==
  \E p, q \in PackagesOn(ids) : p # q /\ p.namespace = q.namespace /\ p.name = q.name

\* C29 (apart from versions): when no two packages of the imports, nor of
\* the exports, differ in their version only, the assertion of emit_modules
\* holds and the modules are grouped by namespace and package.
C29_GroupedWhenNamesDiffer ==
  (Generated /\ ~SameButVersion(Imported) /\ ~SameButVersion(Exported)) =>
    \A r \in 1..2 :
      /\ runs[r].status = "done"
      /\ GroupedByPackage(runs[r].src, Imported)
      /\ Exported # {} =>
           /\ Len(ModulesNamed(runs[r].src, "exports")) = 1
           /\ GroupedByPackage(ModulesNamed(runs[r].src, "exports")[1].items, Exported)

\* C29: for any import and export modules grouped by package, the
\* uniqueness assertion of emit_modules never fails, and one module per
\* namespace is emitted with, inside it, one module per package holding the
\* package's interface modules once each.
C29_ModulesGroupedByPackage ==
  Generated =>
    \A r \in 1..2 :
      /\ runs[r].status = "done"
      /\ GroupedByPackage(runs[r].src, Imported)
      /\ Exported # {} =>
           /\ Len(ModulesNamed(runs[r].src, "exports")) = 1
           /\ GroupedByPackage(ModulesNamed(runs[r].src, "exports")[1].items, Exported)


\* The keys the inserts returned, in order, and the insert that returned a key.
KeyAt(i) == graphs.inserted[i][1]
ValueAt(i) == graphs.inserted[i][2]
Inserts == 1..Len(graphs.inserted)

\* The returned keys increase strictly from 0, the table holds under every
\* returned key the value inserted under it, and the last get of a returned
\* key yielded that value.
KeysAndValuesKept ==
  /\ \A i \in Inserts : i = 1 => KeyAt(i) = 0
  /\ \A i, j \in Inserts : i < j => KeyAt(i) < KeyAt(j)
  /\ \A i \in Inserts : graphs.entries[KeyAt(i)] = ValueAt(i)
  /\ \A i \in Inserts :
       (graphs.got # <<>> /\ graphs.got[1] = KeyAt(i)) => graphs.got[2] = <<ValueAt(i)>>

\* C30 (below the limit): while no more inserts are made than next_key has
\* values, the returned keys are strictly increasing from 0 and no value is
\* overwritten.
C30_KeysFreshBelowLimit ==
  Len(graphs.inserted) <= KeyLimit => KeysAndValuesKept

\* C30: for any sequence of inserts on one table, the returned keys are
\* strictly increasing from 0, each differs from every earlier key, get on
\* a returned key yields the value inserted under it and no insert
\* overwrites an earlier value, including when next_key reaches its limit.
C30_KeysFreshAndValuesKept ==
  /\ KeysAndValuesKept
  /\ \A i, j \in Inserts : i # j => KeyAt(i) # KeyAt(j)

====
